---- MODULE Spec2Model ----
(***************************************************************************)
(* A state-machine model of the PhishFish mailbox monitor                  *)
(* (src/src/imap_client.py, class EmailProcessor).                         *)
(*                                                                         *)
(* The engine is one sequential process; pc is its position in             *)
(* monitor_mailbox_idle / process_unseen / process_single_email.  Every    *)
(* step that talks to a collaborator (an IMAP command, the Classifier, the *)
(* Notifier, the ledger file) is one action whose outcome is chosen        *)
(* nondeterministically among the outcomes the call can have.  The mail    *)
(* server (message arrival, messages read elsewhere), process kills and    *)
(* restarts are environment actions.                                       *)
(***************************************************************************)
EXTENDS Integers, Sequences, FiniteSets, TLC

(* ------------------------------ bounds -------------------------------- *)

\* Message identifiers (IMAP UIDs) the server hands out: 1..MaxUid.
MaxUid == 2

\* The count of consecutive failures of the main loop saturates at KCap.
KCap == 8

\* The dangerous list and the safe list hold at most MaxList entries each.
MaxList == 2

\* get_valid_access_token is called at most MaxCalls times.
MaxCalls == 2

\* The longest a one-second sleep of the callback wait can take, in seconds.
MaxSleep == 100

(* ------------------------- program constants -------------------------- *)

initial_backoff == 5
max_backoff == 300

\* get_valid_access_token: "tokens['expires_at'] > time.time() + 60"
safety_margin == 60

UIDs == 1..MaxUid

Labels == {"phishing", "legitimate"}

VARIABLES
    pc,              \* position of the engine
    caller,          \* who called process_unseen: "startup" or "loop"
    sess,            \* state of self.imap_client
    backoff,         \* local backoff of monitor_mailbox_idle
    processed_uids,  \* self._processed_uids (the in-memory ledger)
    file,            \* content of .data/processed_uids.json
    mailbox,         \* server side: uid -> "absent" | "unseen" | "gone"
    push,            \* an EXISTS response awaits the session's next idle_check
    responses,       \* what idle_check returned: "none"|"timeout"|"other"|"exists"
    queue,           \* unprocessed_uids still to be visited by the for loop
    uid,             \* argument of the running process_single_email (0: none)
    result,          \* result label of the running process_single_email
    IMAP_MOVE,       \* config.IMAP_MOVE
    stable,          \* the network has stopped failing
    \* ---- history variables (observations, never read by the engine) ----
    handed,          \* uid -> times handed to the sender filter (capped at 2)
    entered,         \* uids process_single_email started work on in this run
    reentered,       \* an id was processed twice in one run while unseen
    filterLedger,    \* the ledger when the current pass filtered the unseen ids
    passInvoked,     \* uid -> collaborators invoked for it in the current pass
    drained,         \* a drain pass completed on the current session
    lastWait,        \* how the last wait ended, "none" once a drain started
    trail,           \* events since the last raise or wait return
    excBackoff,      \* backoff when the last exception was raised
    lastDelay,       \* length of the last backoff sleep (0: none since reset)
    call,            \* what the running (or last) process_single_email has done
    \* ---- check_sender_classification, run on its own ----
    sender_field,        \* the argument
    config_attrs,        \* which of the two list attributes the Config class has
    DANGEROUS_SENDERS,   \* config.DANGEROUS_SENDERS
    SAFE_SENDERS,        \* config.SAFE_SENDERS
    sfReturn,            \* what the call returned and how many warnings it logged
    \* ---- the Token Manager (oauth_handler.py), run on its own ----
    token_file,          \* content of .data/oauth_tokens.json
    now,                 \* time.time()
    tmCall,              \* the last get_valid_access_token call and its result
    \* ---- start_local_server (oauth_handler.py), run on its own ----
    ls_pc,               \* position of the calling thread in start_local_server
    server,              \* the listening socket: "none" | "listening" | "closed"
    server_thread,       \* the thread running serve_forever: "none" | "serving" | "stopped"
    authorization_code,  \* nonlocal authorization_code (FALSE: None)
    server_error,        \* nonlocal server_error (FALSE: None)
    elapsed,             \* time.time() - start_time at the last test of the loop
    ls_outcome,          \* how the call ends: "none" | "code" | "error" | "timeout" | "bind" | "thread"
    \* ---- _load_processed_uids (imap_client.py), run on its own ----
    processed_uids_file, \* what .data/processed_uids.json holds, as a document
    ldReturn,            \* what the load returned or raised
    \* ---- the end of process_single_email and move_email, run on their own ----
    MOVE_TO_FOLDER,      \* config.MOVE_TO_FOLDER
    classification,      \* result["classification"] as the Classifier returned it
    me_pc,               \* position in lines 243-256 of process_single_email
    me_uids,             \* self._processed_uids
    me_calls,            \* the calls made so far, in order
    me_moved,            \* imap_client.move: "no" (not called) | "ok" | "failed"
    me_handler,          \* "except Exception" at line 251 was entered
    \* ---- save_tokens and revoke_tokens (oauth_handler.py), run on their own ----
    umask,               \* the file mode creation mask of the process
    tokfile,             \* .data/oauth_tokens.json: exists, mode bits, content
    sv_pc,               \* position in save_tokens
    sv_n,                \* number of the save_tokens call
    \* ---- process_unseen and process_single_email of main.py ----
    mk_pc,               \* position in process_unseen / process_single_email
    mk_flags,            \* uids bearing the keyword StopThePhish_Processed
    mk_queue,            \* uids of the pass not yet processed
    mk_uid,              \* the uid process_single_email is working on (0: none)
    mk_ret,              \* the uid process_single_email last returned for (0: none)
    mk_passes,           \* uid -> passes that called classify_email for it (capped at 2)
    mk_pass,             \* number of the drain pass
    \* ---- the main loop of monitor_mailbox_idle with its clock ----
    ka_pc,               \* position in the loop (lines 306-357)
    ka_state,            \* state of the session self.imap_client refers to
    ka_since,            \* time.time() - last_noop, capped above noop_interval
    ka_backoff,          \* backoff
    ka_wait_open,        \* idle() was sent on the session and idle_done() was not
    ka_noop_failed,      \* a keepalive failed on the session self.imap_client refers to
    ka_last,             \* the last command sent and how it ended
    ka_trail,            \* what was done since the last keepalive failure
    ka_k                 \* failures since the session last became established
                         \* or a wait last ended (saturates at KCap)

engineVars == <<pc, caller, sess, backoff, processed_uids, queue, uid, result, responses>>
envVars == <<file, mailbox, push, IMAP_MOVE, stable>>
ghostVars == <<handed, entered, reentered, filterLedger, passInvoked, drained,
               lastWait, trail, excBackoff, lastDelay>>
filterVars == <<sender_field, config_attrs, DANGEROUS_SENDERS, SAFE_SENDERS, sfReturn>>
tokenVars == <<token_file, now, tmCall>>
listenerVars == <<ls_pc, server, server_thread, authorization_code, server_error,
                  elapsed, ls_outcome>>
loadVars == <<processed_uids_file, ldReturn>>
moveVars == <<MOVE_TO_FOLDER, classification, me_pc, me_uids, me_calls, me_moved,
              me_handler>>
saveVars == <<umask, tokfile, sv_pc, sv_n>>
markerVars == <<mk_pc, mk_flags, mk_queue, mk_uid, mk_ret, mk_passes, mk_pass>>
keepVars == <<ka_pc, ka_state, ka_since, ka_backoff, ka_wait_open, ka_noop_failed,
              ka_last, ka_trail, ka_k>>
moreVars == <<moveVars, saveVars, markerVars, keepVars>>
pureVars == <<filterVars, tokenVars, listenerVars, loadVars, moreVars>>
msgVars == <<call>>
vars == <<engineVars, envVars, ghostVars, msgVars, pureVars>>

(* ------------------------------ helpers -------------------------------- *)

Min(a, b) == IF a < b THEN a ELSE b

RECURSIVE SortedSeq(_)
\* list of a set of uids in ascending order (IMAP SEARCH returns uids ascending)
SortedSeq(S) ==
    IF S = {} THEN <<>>
    ELSE LET m == CHOOSE x \in S : \A y \in S : x <= y
         IN  <<m>> \o SortedSeq(S \ {m})

RECURSIVE Pow2(_)
Pow2(n) == IF n = 0 THEN 1 ELSE 2 * Pow2(n - 1)

\* the server's answer to SEARCH UNSEEN
Unseen == {u \in UIDs : mailbox[u] = "unseen"}

NoFile == [kind |-> "missing", uids |-> {}]
ValidFile(S) == [kind |-> "valid", uids |-> S]
PartialFile == [kind |-> "partial", uids |-> {}]

(* ------------------- Processed-Message Ledger ------------------------- *)

\* _load_processed_uids: a missing file, or one json.load rejects, gives set()
LoadProcessedUids(f) == IF f.kind = "valid" THEN f.uids ELSE {}

\* a ledger lookup that never finds anything
IsUidProcessedNever(u) == FALSE

\* _is_uid_processed
IsUidProcessed(u) == u \in processed_uids

\* What _save_processed_uids leaves on disk when asked to store S:
\*   "ok"        open(..., "w") and json.dump both succeed
\*   "unchanged" open(..., "w") raises OSError, which is logged
\*   "partial"   the file was truncated by open and the write raised OSError
SaveOutcomes == {"ok", "unchanged", "partial"}

SavedFile(o, S) ==
    CASE o = "ok" -> ValidFile(S)
      [] o = "unchanged" -> file
      [] OTHER -> PartialFile

(* --------------------------- Session ----------------------------------- *)

\* connect(): where it stops.  "transport": IMAPClient(...)/starttls raises (the
\* network or the server is unreachable) and self.imap_client keeps the old
\* object; "login": the server refuses the credentials, or no token can be
\* had (LoginError), the new client is not authenticated; "login_network":
\* the connection fails during authentication; "select": select_folder
\* raises; "ok": folder selected.
ConnectOutcomes == {"ok", "transport", "login", "login_network", "select"}

ConnectResult(o) ==
    CASE o = "ok" -> "selected"
      [] o = "select" -> "auth"
      [] o = "login" -> "open"
      [] o = "login_network" -> "broken"
      [] OTHER -> sess

\* An IMAP command can only succeed on a session whose folder is selected.
ImapUsable == sess = "selected"

\* The network (or the server) may still make a command on a usable session fail.
CanFail == ~stable

\* backoff = min(backoff * 2, max_backoff)
NextBackoff(b) == Min(b * 2, max_backoff)

(* ------------------- observation of one message ---------------------- *)

\* Nothing has been done: no process_single_email is running in this pass.
\*   uid        the argument of the call
\*   seq        the collaborators invoked for it, in order
\*   content    what the bytes check found: "valid", "invalid", "none" (no answer)
\*   verdict    what the sender filter returned
\*   arg        the result passed to the Notifier
\*   raised     an exception reached "except Exception" of the call
\*   prevRaised the previous call of this pass ended in that handler
CallNone ==
    [uid |-> 0, seq |-> <<>>, content |-> "none", verdict |-> "none",
     arg |-> "none", raised |-> FALSE, prevRaised |-> FALSE]

\* check_sender_classification has not been called
NotCalled == [ran |-> FALSE, label |-> "none", warnings |-> 0, exc |-> "none"]

\* the sender filter is not exercised: no argument, and the configuration
\* as config.py has it (the Config class defines neither list)
FilterIdle ==
    /\ sender_field = <<>>
    /\ config_attrs = {}
    /\ DANGEROUS_SENDERS = <<>>
    /\ SAFE_SENDERS = <<>>
    /\ sfReturn = NotCalled

(* --------------------------- token file -------------------------------- *)

\* What .data/oauth_tokens.json can hold.  kind:
\*   "missing"    there is no file
\*   "denied"     open() raises OSError (permissions, I/O error)
\*   "truncated"  the text is not JSON (json.JSONDecodeError)
\*   "binary"     the bytes are not UTF-8 text (UnicodeDecodeError)
\*   "empty"      the JSON object {}
\*   "valid"      a JSON object with access_token and, optionally, expires_at
\*                and refresh_token
\* Tokens are named by numbers: 0 is the token stored at the start and n the
\* one issued in answer to the n-th call.
NoTokens(kd) ==
    [kind |-> kd, access_token |-> 0, has_expiry |-> FALSE, expires_at |-> 0,
     has_refresh |-> FALSE, refresh_token |-> 0]

\* no get_valid_access_token call has been made
NoCall ==
    [n |-> 0, at |-> 0, before |-> NoTokens("missing"), posts |-> 0,
     response |-> "none", carried |-> FALSE, saved |-> "none", outcome |-> "none",
     has_value |-> FALSE, value |-> 0, exc |-> "none", site |-> "none",
     next |-> "none"]

\* the Token Manager is not exercised
TokenIdle ==
    /\ token_file = NoTokens("missing")
    /\ now = 0
    /\ tmCall = NoCall

\* start_local_server has not been called
ListenerIdle ==
    /\ ls_pc = "idle"
    /\ server = "none"
    /\ server_thread = "none"
    /\ authorization_code = FALSE
    /\ server_error = FALSE
    /\ elapsed = 0
    /\ ls_outcome = "none"

(* ------------------------ ledger file as text -------------------------- *)

\* What .data/processed_uids.json can hold.  kind:
\*   "missing"    there is no file
\*   "denied"     open() raises OSError (permissions, a directory, I/O error)
\*   "binary"     the bytes are not UTF-8 text
\*   "truncated"  the text is not JSON (cut short, empty, garbage)
\*   "json"       a JSON document: top is the type of the top-level value;
\*                for an object, value is the type of its "processed_uids"
\*                member ("absent": no such member) and items are the
\*                elements a Python loop over that member yields (the
\*                elements of a list, the characters of a string, the keys
\*                of an object)
\* An item is [t |-> "int", v |-> n], [t |-> "float", v |-> n] (n + 0.5),
\* [t |-> "str", s |-> characters] or [t |-> "null"].
Doc(kd, tp, vl, it) == [kind |-> kd, top |-> tp, value |-> vl, items |-> it]

NoDoc == Doc("missing", "none", "absent", <<>>)

\* _load_processed_uids has not been called
NotLoaded == [ran |-> FALSE, outcome |-> "none", exc |-> "none", uids |-> {}]

\* the loader is not exercised
LoadIdle ==
    /\ processed_uids_file = NoDoc
    /\ ldReturn = NotLoaded

(* ------------------ the parts added for single handlers ---------------- *)

\* the uid of the message process_single_email is called for on its own
TheUid == 1

\* move_email is not exercised
MoveIdle ==
    /\ MOVE_TO_FOLDER = <<>>
    /\ classification = [t |-> "absent", s |-> <<>>]
    /\ me_pc = "idle"
    /\ me_uids = {}
    /\ me_calls = <<>>
    /\ me_moved = "no"
    /\ me_handler = FALSE

\* there is no token file
NoTokFile == [exists |-> FALSE, mode |-> 0, content |-> "none"]

\* save_tokens is not exercised
SaveIdle ==
    /\ umask = 0
    /\ tokfile = NoTokFile
    /\ sv_pc = "idle"
    /\ sv_n = 0

\* main.py is not exercised
MarkerIdle ==
    /\ mk_pc = "idle"
    /\ mk_flags = {}
    /\ mk_queue = <<>>
    /\ mk_uid = 0
    /\ mk_ret = 0
    /\ mk_passes = [u \in UIDs |-> 0]
    /\ mk_pass = 0

\* the main loop with its clock is not exercised
KeepIdle ==
    /\ ka_pc = "idle"
    /\ ka_state = "none"
    /\ ka_since = 0
    /\ ka_backoff = initial_backoff
    /\ ka_wait_open = FALSE
    /\ ka_noop_failed = FALSE
    /\ ka_last = "none"
    /\ ka_trail = <<>>
    /\ ka_k = 0

MoreIdle == MoveIdle /\ SaveIdle /\ MarkerIdle /\ KeepIdle

(* ------------------------------ Init ----------------------------------- *)

\* the monitor after EmailProcessor.__init__, before monitor_mailbox_idle runs
InitEngine ==
    /\ call = CallNone
    /\ pc = "start"
    /\ caller = "startup"
    /\ sess = "none"
    /\ backoff = initial_backoff
    /\ file = NoFile
    /\ processed_uids = LoadProcessedUids(NoFile)
    /\ mailbox = [u \in UIDs |-> "absent"]
    /\ push = FALSE
    /\ responses = "none"
    /\ queue = <<>>
    /\ uid = 0
    /\ result = "none"
    /\ IMAP_MOVE \in BOOLEAN
    /\ stable = FALSE
    /\ handed = [u \in UIDs |-> 0]
    /\ entered = {}
    /\ reentered = FALSE
    /\ filterLedger = {}
    /\ passInvoked = {}
    /\ drained = FALSE
    /\ lastWait = "none"
    /\ trail = <<>>
    /\ excBackoff = 0
    /\ lastDelay = 0

Init ==
    /\ InitEngine
    /\ MoreIdle
    /\ FilterIdle
    /\ TokenIdle
    /\ ListenerIdle
    /\ LoadIdle

(* ----------------- transfers of control used by the actions ------------ *)

\* self.process_unseen() is called by c ("startup" or "loop")
EnterDrain(c) ==
    /\ pc' = "pu_cleanup"
    /\ caller' = c
    /\ lastWait' = "none"
    /\ filterLedger' = {}
    /\ passInvoked' = {}

\* an exception reaches "except Exception as e" of the main loop (line 338)
RaiseInLoop ==
    /\ pc' = "h_logout"
    /\ excBackoff' = backoff
    /\ trail' = <<"exc">>

\* an exception reaches the handlers of the startup block: sys.exit(1)
ExitStartup == pc' = "exited"

(* ===================== monitor_mailbox_idle: startup =================== *)

\* self.connect() in the startup block; any exception there is fatal.  A
\* new client object has no announcement queued on it.
StartConnect ==
    /\ pc = "start"
    /\ \E o \in ConnectOutcomes :
         /\ (o # "ok") => CanFail
         /\ sess' = ConnectResult(o)
         /\ push' = IF o = "transport" THEN push ELSE FALSE
         /\ pc' = IF o = "ok" THEN "list_folders" ELSE "exited"
    /\ drained' = FALSE
    /\ UNCHANGED <<caller, backoff, processed_uids, queue, uid, result, responses>>
    /\ UNCHANGED <<file, mailbox, IMAP_MOVE, stable>>
    /\ UNCHANGED <<handed, entered, reentered, filterLedger, passInvoked,
                   lastWait, trail, excBackoff, lastDelay>>
    /\ UNCHANGED msgVars
    /\ UNCHANGED pureVars

\* self.print_available_folders(), then self.process_unseen()
ListFolders ==
    /\ pc = "list_folders"
    /\ \E ok \in BOOLEAN :
         /\ ok => ImapUsable
         /\ ~ok => CanFail
         /\ IF ok THEN EnterDrain("startup")
                  ELSE /\ ExitStartup
                       /\ UNCHANGED <<caller, lastWait, filterLedger, passInvoked>>
    /\ UNCHANGED <<sess, backoff, processed_uids, queue, uid, result, responses>>
    /\ UNCHANGED envVars
    /\ UNCHANGED <<handed, entered, reentered, drained, trail, excBackoff, lastDelay>>
    /\ UNCHANGED msgVars
    /\ UNCHANGED pureVars

(* ============================ process_unseen =========================== *)

\* self._cleanup_processed_uids(): prune the ledger of ids no longer unseen.
\* Nothing is done on an empty ledger; a failing SEARCH is logged and ignored.
Cleanup ==
    /\ pc = "pu_cleanup"
    /\ \E ok \in BOOLEAN, o \in SaveOutcomes :
         /\ ok => ImapUsable
         /\ ~ok => (CanFail \/ ~ImapUsable)
         /\ LET stale == IF ok /\ processed_uids # {}
                         THEN processed_uids \ Unseen ELSE {}
            IN  /\ processed_uids' = processed_uids \ stale
                /\ file' = IF stale # {} THEN SavedFile(o, processed_uids \ stale)
                                         ELSE file
    /\ pc' = "pu_search"
    /\ UNCHANGED <<caller, sess, backoff, queue, uid, result, responses>>
    /\ UNCHANGED <<mailbox, push, IMAP_MOVE, stable>>
    /\ UNCHANGED ghostVars
    /\ UNCHANGED msgVars
    /\ UNCHANGED pureVars

\* all_unseen_uids = search("UNSEEN"); unprocessed_uids = those not in the ledger
Search ==
    /\ pc = "pu_search"
    /\ \E ok \in BOOLEAN :
         /\ ok => ImapUsable
         /\ ~ok => (CanFail \/ ~ImapUsable)
         /\ IF ok
            THEN /\ queue' = SortedSeq({u \in Unseen : ~IsUidProcessed(u)})
                 /\ filterLedger' = processed_uids
                 /\ pc' = "pu_loop"
                 /\ UNCHANGED <<excBackoff, trail>>
            ELSE /\ queue' = <<>>
                 /\ filterLedger' = {}
                 /\ IF caller = "startup"
                    THEN ExitStartup /\ UNCHANGED <<excBackoff, trail>>
                    ELSE RaiseInLoop
    /\ UNCHANGED <<caller, sess, backoff, processed_uids, uid, result, responses>>
    /\ UNCHANGED envVars
    /\ UNCHANGED <<handed, entered, reentered, passInvoked, drained, lastWait, lastDelay>>
    /\ UNCHANGED msgVars
    /\ UNCHANGED pureVars

\* for uid in unprocessed_uids: self.process_single_email(uid); the skip check
\* at the top of process_single_email is part of this step.  When the list is
\* exhausted process_unseen returns; after the startup drain, backoff = 5.
ForLoop ==
    /\ pc = "pu_loop"
    /\ IF queue = <<>>
       THEN /\ pc' = "loop_top"
            /\ backoff' = IF caller = "startup" THEN initial_backoff ELSE backoff
            /\ drained' = TRUE
            /\ filterLedger' = {}
            /\ passInvoked' = {}
            /\ call' = CallNone
            /\ UNCHANGED <<queue, uid>>
       ELSE /\ queue' = Tail(queue)
            /\ IF IsUidProcessed(Head(queue))
               THEN pc' = "pu_loop" /\ uid' = 0 /\ UNCHANGED call
               ELSE /\ pc' = "ps_fetch"
                    /\ uid' = Head(queue)
                    /\ call' = [CallNone EXCEPT !.uid = Head(queue),
                                                !.prevRaised = call.raised]
            /\ UNCHANGED <<backoff, drained, filterLedger, passInvoked>>
    /\ UNCHANGED <<caller, sess, processed_uids, result, responses>>
    /\ UNCHANGED envVars
    /\ UNCHANGED <<handed, entered, reentered, lastWait, trail, excBackoff, lastDelay>>
    /\ UNCHANGED pureVars

(* ========================= process_single_email ======================== *)

\* fetch(uid, ["BODY.PEEK[]"]), the bytes check and parse_email_bytes(raw)
\*   "valid"       the content is a byte string and the Parser returns
\*   "invalid"     the content is not a byte string: mark processed and return
\*   "fetch_raise" fetch raises, or the answer has no entry for the uid
\*   "parse_raise" the Parser raises
FetchOutcomes == {"valid", "invalid", "fetch_raise", "parse_raise"}

\* a fetch step with no "except Exception" around it: an exception of fetch
\* or of the Parser leaves process_single_email and process_unseen
FetchRaisePropagates ==
    /\ pc = "ps_fetch"
    /\ \E o \in FetchOutcomes :
         /\ (o # "fetch_raise") => ImapUsable
         /\ (o = "fetch_raise") => (CanFail \/ ~ImapUsable \/ mailbox[uid] = "gone")
         /\ pc' = CASE o = "valid" -> "ps_filter"
                    [] o = "invalid" -> "ps_mark"
                    [] OTHER -> "h_logout"
         /\ call' = [call EXCEPT
                !.seq = IF o \in {"valid", "parse_raise"} THEN <<"fetch", "parse">>
                                                          ELSE <<"fetch">>,
                !.content = CASE o = "invalid" -> "invalid"
                              [] o = "fetch_raise" -> "none"
                              [] OTHER -> "valid",
                !.raised = o \in {"fetch_raise", "parse_raise"}]
    /\ result' = "none"
    /\ entered' = entered \cup {uid}
    /\ reentered' = (reentered \/ uid \in entered)
    /\ passInvoked' = passInvoked \cup {uid}
    /\ UNCHANGED <<caller, sess, backoff, processed_uids, queue, uid, responses>>
    /\ UNCHANGED envVars
    /\ UNCHANGED <<handed, filterLedger, drained, lastWait, trail, excBackoff, lastDelay>>
    /\ UNCHANGED pureVars

\* a fetch step without the bytes check of lines 209-213: content that is not
\* a byte string is handed on like valid content
FetchNoBytesCheck ==
    /\ pc = "ps_fetch"
    /\ \E o \in FetchOutcomes :
         /\ (o # "fetch_raise") => ImapUsable
         /\ (o = "fetch_raise") => (CanFail \/ ~ImapUsable \/ mailbox[uid] = "gone")
         /\ pc' = IF o \in {"valid", "invalid"} THEN "ps_filter" ELSE "ps_mark"
         /\ call' = [call EXCEPT
                !.seq = IF o = "fetch_raise" THEN <<"fetch">> ELSE <<"fetch", "parse">>,
                !.content = CASE o = "invalid" -> "invalid"
                              [] o = "fetch_raise" -> "none"
                              [] OTHER -> "valid",
                !.raised = o \in {"fetch_raise", "parse_raise"}]
    /\ result' = "none"
    /\ entered' = entered \cup {uid}
    /\ reentered' = (reentered \/ uid \in entered)
    /\ passInvoked' = passInvoked \cup {uid}
    /\ UNCHANGED <<caller, sess, backoff, processed_uids, queue, uid, responses>>
    /\ UNCHANGED envVars
    /\ UNCHANGED <<handed, filterLedger, drained, lastWait, trail, excBackoff, lastDelay>>
    /\ UNCHANGED pureVars

Fetch ==
    /\ pc = "ps_fetch"
    /\ \E o \in FetchOutcomes :
         /\ (o # "fetch_raise") => ImapUsable
         /\ (o = "fetch_raise") => (CanFail \/ ~ImapUsable \/ mailbox[uid] = "gone")
         /\ pc' = IF o = "valid" THEN "ps_filter" ELSE "ps_mark"
         /\ call' = [call EXCEPT
                !.seq = IF o \in {"valid", "parse_raise"} THEN <<"fetch", "parse">>
                                                          ELSE <<"fetch">>,
                !.content = CASE o = "invalid" -> "invalid"
                              [] o = "fetch_raise" -> "none"
                              [] OTHER -> "valid",
                !.raised = o \in {"fetch_raise", "parse_raise"}]
    /\ result' = "none"
    /\ entered' = entered \cup {uid}
    /\ reentered' = (reentered \/ uid \in entered)
    /\ passInvoked' = passInvoked \cup {uid}
    /\ UNCHANGED <<caller, sess, backoff, processed_uids, queue, uid, responses>>
    /\ UNCHANGED envVars
    /\ UNCHANGED <<handed, filterLedger, drained, lastWait, trail, excBackoff, lastDelay>>
    /\ UNCHANGED pureVars

\* a sender filter whose verdict is not used: the Classifier is always asked
SenderFilterVerdictIgnored ==
    /\ pc = "ps_filter"
    /\ \E v \in Labels \cup {"none"} :
         /\ result' = "none"
         /\ call' = [call EXCEPT !.seq = Append(@, "filter"), !.verdict = v]
    /\ pc' = "ps_classify"
    /\ handed' = [handed EXCEPT ![uid] = Min(@ + 1, 2)]
    /\ passInvoked' = passInvoked \cup {uid}
    /\ UNCHANGED <<caller, sess, backoff, processed_uids, queue, uid, responses>>
    /\ UNCHANGED envVars
    /\ UNCHANGED <<entered, reentered, filterLedger, drained, lastWait, trail,
                   excBackoff, lastDelay>>
    /\ UNCHANGED pureVars

\* check_sender_classification(metadata["from"]): a label, no verdict, or an
\* exception ("raise": the lookup of config.DANGEROUS_SENDERS at line 110 of
\* email_parser.py fails when the configuration object has no such attribute,
\* and the Config class of config.py defines none)
SenderFilter ==
    /\ pc = "ps_filter"
    /\ \E v \in Labels \cup {"none", "raise"} :
         /\ result' = IF v = "raise" THEN "none" ELSE v
         /\ pc' = CASE v = "none" -> "ps_classify"
                    [] v = "raise" -> "ps_mark"
                    [] OTHER -> "ps_notify"
         /\ call' = [call EXCEPT !.seq = Append(@, "filter"),
                                 !.verdict = IF v = "raise" THEN "none" ELSE v,
                                 !.raised = (v = "raise")]
    /\ handed' = [handed EXCEPT ![uid] = Min(@ + 1, 2)]
    /\ passInvoked' = passInvoked \cup {uid}
    /\ UNCHANGED <<caller, sess, backoff, processed_uids, queue, uid, responses>>
    /\ UNCHANGED envVars
    /\ UNCHANGED <<entered, reentered, filterLedger, drained, lastWait, trail,
                   excBackoff, lastDelay>>
    /\ UNCHANGED pureVars

\* classifier.classify_email(preview): a result, or RuntimeError
Classify ==
    /\ pc = "ps_classify"
    /\ \E r \in Labels \cup {"raise"} :
         /\ result' = IF r = "raise" THEN "none" ELSE r
         /\ pc' = IF r = "raise" THEN "ps_mark" ELSE "ps_notify"
         /\ call' = [call EXCEPT !.seq = Append(@, "classify"), !.raised = (r = "raise")]
    /\ passInvoked' = passInvoked \cup {uid}
    /\ UNCHANGED <<caller, sess, backoff, processed_uids, queue, uid, responses>>
    /\ UNCHANGED envVars
    /\ UNCHANGED <<handed, entered, reentered, filterLedger, drained, lastWait, trail,
                   excBackoff, lastDelay>>
    /\ UNCHANGED pureVars

\* notify_user(metadata["from"], metadata["subject"], result): returns or raises
Notify ==
    /\ pc = "ps_notify"
    /\ \E ok \in BOOLEAN :
         /\ result' = IF ok THEN result ELSE "none"
         /\ call' = [call EXCEPT !.seq = Append(@, "notify"), !.arg = result,
                                 !.raised = ~ok]
    /\ pc' = "ps_mark"
    /\ passInvoked' = passInvoked \cup {uid}
    /\ UNCHANGED <<caller, sess, backoff, processed_uids, queue, uid, responses>>
    /\ UNCHANGED envVars
    /\ UNCHANGED <<handed, entered, reentered, filterLedger, drained, lastWait, trail,
                   excBackoff, lastDelay>>
    /\ UNCHANGED pureVars

\* marking only after a notification went out: the calls at lines 212 and 256
\* (invalid content, an exception) are left out
MarkOnlyOnSuccess ==
    /\ pc = "ps_mark"
    /\ IF result \in Labels
       THEN /\ processed_uids' = processed_uids \cup {uid}
            /\ \E o \in SaveOutcomes : file' = SavedFile(o, processed_uids \cup {uid})
            /\ pc' = "ps_move"
            /\ call' = [call EXCEPT !.seq = Append(@, "mark")]
            /\ UNCHANGED uid
       ELSE /\ pc' = "pu_loop"
            /\ uid' = 0
            /\ UNCHANGED <<processed_uids, file, call>>
    /\ UNCHANGED <<caller, sess, backoff, queue, result, responses>>
    /\ UNCHANGED <<mailbox, push, IMAP_MOVE, stable>>
    /\ UNCHANGED ghostVars
    /\ UNCHANGED pureVars

\* self._mark_uid_processed(uid) at line 212, 246 or 256.  Only the call at
\* line 246 (result is a label) is followed by move_email.
Mark ==
    /\ pc = "ps_mark"
    /\ processed_uids' = processed_uids \cup {uid}
    /\ \E o \in SaveOutcomes : file' = SavedFile(o, processed_uids \cup {uid})
    /\ IF result \in Labels
       THEN pc' = "ps_move" /\ UNCHANGED uid
       ELSE pc' = "pu_loop" /\ uid' = 0
    /\ call' = [call EXCEPT !.seq = Append(@, "mark")]
    /\ UNCHANGED <<caller, sess, backoff, queue, result, responses>>
    /\ UNCHANGED <<mailbox, push, IMAP_MOVE, stable>>
    /\ UNCHANGED ghostVars
    /\ UNCHANGED pureVars

\* self.move_email(uid, result): moves only when a destination folder is
\* configured and the label is "phishing"; a failing move is logged
Move ==
    /\ pc = "ps_move"
    /\ \E ok \in BOOLEAN :
         /\ ok => ImapUsable
         /\ mailbox' = IF ok /\ IMAP_MOVE /\ result = "phishing"
                       THEN [mailbox EXCEPT ![uid] = "gone"] ELSE mailbox
    /\ pc' = "pu_loop"
    /\ uid' = 0
    /\ result' = "none"
    /\ call' = [call EXCEPT !.seq = Append(@, "move")]
    /\ UNCHANGED <<caller, sess, backoff, processed_uids, queue, responses>>
    /\ UNCHANGED <<file, push, IMAP_MOVE, stable>>
    /\ UNCHANGED ghostVars
    /\ UNCHANGED pureVars

(* ==================== monitor_mailbox_idle: main loop ================== *)

\* the periodic NOOP: not due yet ("skip"), sent ("ok"), or it raises ("fail")
LoopTop ==
    /\ pc = "loop_top"
    /\ \E o \in {"skip", "ok", "fail"} :
         /\ (o = "ok") => ImapUsable
         /\ (o = "fail") => (CanFail \/ ~ImapUsable)
         /\ IF o = "fail" THEN RaiseInLoop
                          ELSE pc' = "idle_start" /\ UNCHANGED <<excBackoff, trail>>
    /\ UNCHANGED <<caller, sess, backoff, processed_uids, queue, uid, result, responses>>
    /\ UNCHANGED envVars
    /\ UNCHANGED <<handed, entered, reentered, filterLedger, passInvoked, drained,
                   lastWait, lastDelay>>
    /\ UNCHANGED msgVars
    /\ UNCHANGED pureVars

\* self.imap_client.idle(): the long-poll wait is issued
IdleStart ==
    /\ pc = "idle_start"
    /\ \E ok \in BOOLEAN :
         /\ ok => ImapUsable
         /\ ~ok => (CanFail \/ ~ImapUsable)
         /\ IF ok THEN pc' = "idle_wait" /\ UNCHANGED <<excBackoff, trail>>
                  ELSE RaiseInLoop
    /\ UNCHANGED <<caller, sess, backoff, processed_uids, queue, uid, result, responses>>
    /\ UNCHANGED envVars
    /\ UNCHANGED <<handed, entered, reentered, filterLedger, passInvoked, drained,
                   lastWait, lastDelay>>
    /\ UNCHANGED msgVars
    /\ UNCHANGED pureVars

\* an idle_check whose timeout is taken for a lost connection
IdleCheckTimeoutReconnects ==
    /\ pc = "idle_wait"
    /\ \E r \in {"exists", "timeout", "other", "raise"} :
         /\ (r = "exists") => push
         /\ (r \in {"timeout", "other"}) => ~push
         /\ (r = "raise") => CanFail
         /\ IF r = "raise"
            THEN RaiseInLoop /\ UNCHANGED <<responses, lastWait>>
            ELSE /\ pc' = IF r = "timeout" THEN "h_logout" ELSE "idle_done"
                 /\ responses' = r
                 /\ lastWait' = r
                 /\ trail' = <<>>
                 /\ UNCHANGED <<excBackoff>>
    /\ push' = FALSE
    /\ UNCHANGED <<caller, sess, backoff, processed_uids, queue, uid, result>>
    /\ UNCHANGED <<file, mailbox, IMAP_MOVE, stable>>
    /\ UNCHANGED <<handed, entered, reentered, filterLedger, passInvoked, drained, lastDelay>>
    /\ UNCHANGED msgVars
    /\ UNCHANGED pureVars

\* responses = idle_check(timeout=idle_timeout)
\*   "exists"  the server pushed an EXISTS response
\*   "timeout" the timeout expired, responses is empty
\*   "other"   responses that are not EXISTS (flag changes, expunges)
\*   "raise"   the connection failed during the wait
IdleCheck ==
    /\ pc = "idle_wait"
    /\ \E r \in {"exists", "timeout", "other", "raise"} :
         /\ (r = "exists") => push
         /\ (r \in {"timeout", "other"}) => ~push
         /\ (r = "raise") => CanFail
         /\ IF r = "raise"
            THEN RaiseInLoop /\ UNCHANGED <<responses, lastWait>>
            ELSE /\ pc' = "idle_done"
                 /\ responses' = r
                 /\ lastWait' = r
                 /\ trail' = <<>>
                 /\ UNCHANGED <<excBackoff>>
    /\ push' = FALSE
    /\ UNCHANGED <<caller, sess, backoff, processed_uids, queue, uid, result>>
    /\ UNCHANGED <<file, mailbox, IMAP_MOVE, stable>>
    /\ UNCHANGED <<handed, entered, reentered, filterLedger, passInvoked, drained, lastDelay>>
    /\ UNCHANGED msgVars
    /\ UNCHANGED pureVars

\* idle_done(); backoff = 5; then the scan of responses for EXISTS, which
\* calls process_unseen() at the first one
IdleDone ==
    /\ pc = "idle_done"
    /\ \E ok \in BOOLEAN :
         /\ ok => ImapUsable
         /\ ~ok => (CanFail \/ ~ImapUsable)
         /\ IF ok
            THEN /\ backoff' = initial_backoff
                 /\ lastDelay' = 0
                 /\ excBackoff' = 0
                 /\ IF responses = "exists"
                    THEN EnterDrain("loop")
                    ELSE /\ pc' = "loop_top"
                         /\ UNCHANGED <<caller, lastWait, filterLedger, passInvoked>>
                 /\ UNCHANGED trail
            ELSE /\ RaiseInLoop
                 /\ UNCHANGED <<backoff, lastDelay, caller, lastWait, filterLedger,
                                passInvoked>>
    /\ responses' = "none"
    /\ UNCHANGED <<sess, processed_uids, queue, uid, result>>
    /\ UNCHANGED envVars
    /\ UNCHANGED <<handed, entered, reentered, drained>>
    /\ UNCHANGED msgVars
    /\ UNCHANGED pureVars

(* ============== monitor_mailbox_idle: the except handler =============== *)

\* the handler without its logout: the old session is left as it is
HandlerLogoutSkipped ==
    /\ pc = "h_logout"
    /\ pc' = "h_sleep"
    /\ UNCHANGED <<caller, sess, backoff, processed_uids, queue, uid, result, responses>>
    /\ UNCHANGED envVars
    /\ UNCHANGED ghostVars
    /\ UNCHANGED msgVars
    /\ UNCHANGED pureVars

\* try: self.imap_client.logout() / except: pass.  Whether or not the logout
\* raises, the old session is finished; what the server had queued for it is lost.
HandlerLogout ==
    /\ pc = "h_logout"
    /\ sess' = "closed"
    /\ push' = FALSE
    /\ trail' = Append(trail, "logout")
    /\ pc' = "h_sleep"
    /\ UNCHANGED <<caller, backoff, processed_uids, queue, uid, result, responses>>
    /\ UNCHANGED <<file, mailbox, IMAP_MOVE, stable>>
    /\ UNCHANGED <<handed, entered, reentered, filterLedger, passInvoked, drained,
                   lastWait, excBackoff, lastDelay>>
    /\ UNCHANGED msgVars
    /\ UNCHANGED pureVars

\* time.sleep(backoff); backoff = min(backoff * 2, max_backoff)
HandlerSleep ==
    /\ pc = "h_sleep"
    /\ lastDelay' = backoff
    /\ backoff' = NextBackoff(backoff)
    /\ trail' = Append(trail, "sleep")
    /\ pc' = "h_connect"
    /\ UNCHANGED <<caller, sess, processed_uids, queue, uid, result, responses>>
    /\ UNCHANGED envVars
    /\ UNCHANGED <<handed, entered, reentered, filterLedger, passInvoked, drained,
                   lastWait, excBackoff>>
    /\ UNCHANGED msgVars
    /\ UNCHANGED pureVars

\* try: self.connect() / except Exception: logged; then back to "while True".
\* Unless the transport failed, self.imap_client is a new client object
\* (lines 77-88): what the server had announced on the old one is not queued
\* on it.
HandlerConnect ==
    /\ pc = "h_connect"
    /\ \E o \in ConnectOutcomes :
         /\ (o # "ok") => CanFail
         /\ sess' = ConnectResult(o)
         /\ push' = IF o = "transport" THEN push ELSE FALSE
         /\ drained' = IF o = "transport" THEN drained ELSE FALSE
    /\ trail' = Append(trail, "connect")
    /\ pc' = "loop_top"
    /\ UNCHANGED <<caller, backoff, processed_uids, queue, uid, result, responses>>
    /\ UNCHANGED <<file, mailbox, IMAP_MOVE, stable>>
    /\ UNCHANGED <<handed, entered, reentered, filterLedger, passInvoked,
                   lastWait, excBackoff, lastDelay>>
    /\ UNCHANGED msgVars
    /\ UNCHANGED pureVars

(* ============================ environment ============================== *)

\* The server stores a new message under the next uid (uids ascend) and
\* announces it to the session that has the folder selected, if there is one:
\* the EXISTS response is returned by that session's current or next
\* idle_check.  (The most favourable server: an announcement is never
\* swallowed by the answer to another command.)
Arrive(u) ==
    /\ mailbox[u] = "absent"
    /\ \A v \in UIDs : v < u => mailbox[v] # "absent"
    /\ mailbox' = [mailbox EXCEPT ![u] = "unseen"]
    /\ push' = (push \/ sess = "selected")
    /\ UNCHANGED engineVars
    /\ UNCHANGED <<file, IMAP_MOVE, stable>>
    /\ UNCHANGED ghostVars
    /\ UNCHANGED msgVars
    /\ UNCHANGED pureVars

\* The message is read, moved or deleted by another client.
ReadElsewhere(u) ==
    /\ mailbox[u] = "unseen"
    /\ mailbox' = [mailbox EXCEPT ![u] = "gone"]
    /\ UNCHANGED engineVars
    /\ UNCHANGED <<file, push, IMAP_MOVE, stable>>
    /\ UNCHANGED ghostVars
    /\ UNCHANGED msgVars
    /\ UNCHANGED pureVars

Engine ==
    \/ StartConnect \/ ListFolders
    \/ Cleanup \/ Search \/ ForLoop
    \/ Fetch \/ SenderFilter \/ Classify \/ Notify \/ Mark \/ Move
    \/ LoopTop \/ IdleStart \/ IdleCheck \/ IdleDone
    \/ HandlerLogout \/ HandlerSleep \/ HandlerConnect

Server == \E u \in UIDs : Arrive(u) \/ ReadElsewhere(u)

Next == Engine \/ Server

Spec == Init /\ [][Next]_vars

(* ================= process kills, restarts, a settling network ========= *)

\* _save_processed_uids is about to run: between its open(..., "w"), which
\* truncates the file, and the end of json.dump the file is incomplete.
WritePending ==
    \/ pc = "ps_mark"
    \/ pc = "pu_cleanup" /\ ImapUsable /\ processed_uids \ Unseen # {}

\* what the write that is about to run, or running, is storing: the ledger
\* after self._processed_uids.add(uid) (line 64) or after the prune (line 382)
PendingLedger ==
    IF pc = "ps_mark" THEN processed_uids \cup {uid} ELSE processed_uids \cap Unseen

\* The process is killed (SIGKILL, power loss): everything in memory is lost.
\* A kill that falls into a write of the ledger file may leave it truncated.
Kill ==
    /\ pc \notin {"killed", "exited"}
    /\ \E partial \in BOOLEAN :
         /\ partial => WritePending
         /\ file' = IF partial THEN PartialFile ELSE file
    /\ pc' = "killed"
    /\ caller' = "startup"
    /\ sess' = "none"
    /\ backoff' = initial_backoff
    /\ processed_uids' = {}
    /\ queue' = <<>>
    /\ uid' = 0
    /\ result' = "none"
    /\ responses' = "none"
    /\ push' = FALSE
    /\ entered' = {}
    /\ reentered' = FALSE
    /\ filterLedger' = {}
    /\ passInvoked' = {}
    /\ drained' = FALSE
    /\ lastWait' = "none"
    /\ trail' = <<>>
    /\ excBackoff' = 0
    /\ lastDelay' = 0
    /\ call' = CallNone
    /\ UNCHANGED <<mailbox, IMAP_MOVE, stable, handed>>
    /\ UNCHANGED pureVars

\* The process is started again: EmailProcessor.__init__ reloads the ledger.
Restart ==
    /\ pc \in {"killed", "exited"}
    /\ pc' = "start"
    /\ processed_uids' = LoadProcessedUids(file)
    /\ caller' = "startup"
    /\ sess' = "none"
    /\ backoff' = initial_backoff
    /\ queue' = <<>>
    /\ uid' = 0
    /\ result' = "none"
    /\ responses' = "none"
    /\ push' = FALSE
    /\ entered' = {}
    /\ reentered' = FALSE
    /\ filterLedger' = {}
    /\ passInvoked' = {}
    /\ drained' = FALSE
    /\ lastWait' = "none"
    /\ trail' = <<>>
    /\ excBackoff' = 0
    /\ lastDelay' = 0
    /\ call' = CallNone
    /\ UNCHANGED <<file, mailbox, IMAP_MOVE, stable, handed>>
    /\ UNCHANGED pureVars

NextCrash == Engine \/ Server \/ Kill \/ Restart

\* the engine under kills and restarts
SpecCrash == Init /\ [][NextCrash]_vars

\* From now on no connection attempt and no command on a usable session fails.
Stabilise ==
    /\ ~stable
    /\ stable' = TRUE
    /\ UNCHANGED engineVars
    /\ UNCHANGED <<file, mailbox, push, IMAP_MOVE>>
    /\ UNCHANGED ghostVars
    /\ UNCHANGED msgVars
    /\ UNCHANGED pureVars

NextLive == Engine \/ Server \/ Stabilise

\* The engine is a sequential program that keeps running (weak fairness of
\* its steps), and connection failures eventually stop.
SpecLive == Init /\ [][NextLive]_vars /\ WF_vars(Engine) /\ WF_vars(Stabilise)

(* ======================= the interrupt signal ========================== *)

\* positions inside process_unseen and process_single_email
DrainPcs ==
    {"pu_cleanup", "pu_search", "pu_loop", "ps_fetch", "ps_filter", "ps_classify",
     "ps_notify", "ps_mark", "ps_move"}

\* the engine is in the startup block (lines 285-297), whose handlers are
\* "except LoginError" and "except Exception"
InStartupBlock ==
    \/ pc \in {"start", "list_folders"}
    \/ pc \in DrainPcs /\ caller = "startup"

\* Where, within the code the current position stands for, the interrupt
\* lands:
\*   in connect() (lines 72-96): before self.imap_client is assigned
\*     ("before"), or with the new client created ("open"), logged in ("auth")
\*     or with the folder selected ("selected");
\*   in the handler that logs a failure of connect() (lines 292-297 at the
\*     startup, 356-357 at a reconnect): the session is as the failed
\*     connect() left it, which the cases above cover except for a
\*     connection lost during the login ("broken");
\*   in _mark_uid_processed or the prune (lines 62-65, 382-384): before the
\*     ledger is changed ("before"), after the change in memory ("added"),
\*     inside the write of the file ("partial") or after it ("written");
\*   in lines 204-214 of process_single_email: before the fetch is answered
\*     ("before"), or after the answer passed the bytes check and before
\*     parse_email_bytes ("fetched");
\*   in the handler of line 338: in logging.error (lines 339-341, "logging"),
\*     or inside "try: logout() / except: pass", before logout() has sent
\*     anything ("logout_unsent") or after ("logout");
\*   in "except KeyboardInterrupt" (line 360, "handler"), or in the finally
\*     block: at the test of line 362 ("test") or inside its
\*     "try: logout() / except: pass" ("logout_unsent", "logout");
\*   anywhere else there is one case ("before").
InterruptPoints ==
    CASE pc \in {"start", "h_connect"} ->
           {"before", "open", "auth", "selected"}
               \cup (IF CanFail THEN {"broken"} ELSE {})
      [] WritePending -> {"before", "added", "partial", "written"}
      [] pc = "ps_fetch" -> IF ImapUsable THEN {"before", "fetched"} ELSE {"before"}
      [] pc = "h_logout" -> {"logging", "logout_unsent", "logout"}
      [] pc = "finally" -> {"handler", "test", "logout_unsent", "logout"}
      [] pc = "finally_raise" -> {"test", "logout_unsent", "logout"}
      [] OTHER -> {"before"}

\* SIGINT: Python raises KeyboardInterrupt in the main thread, wherever it is.
\* KeyboardInterrupt is not an Exception, so no "except Exception" on the way
\* (lines 251, 295, 338, 356, 387; notify_user, move_email) stops it:
\*   in the startup block it leaves monitor_mailbox_idle ("propagated"): the
\*     try of line 306, with "except KeyboardInterrupt" and the final logout,
\*     has not been entered;
\*   in the main loop, the handler of line 338 included, it reaches
\*     "except KeyboardInterrupt" (line 359) and then the finally block
\*     ("finally");
\*   in "except KeyboardInterrupt" itself it runs the finally block and then
\*     leaves the function ("finally_raise"); in the finally block outside
\*     the try of line 363 it leaves the function at once;
\*   inside one of the two "try: logout() / except: pass" (lines 344-347 and
\*     363-366) the bare except swallows it and the code carries on, with
\*     the session logged out or, when logout() had not sent anything yet,
\*     as it was.
\* What the interrupted call had done so far stays done: the client assigned
\* by connect() (a new object, with nothing announced on it), the id added to
\* the ledger, the file written or cut short.
\* Once the loop is left the locals of monitor_mailbox_idle are gone.
Interrupt ==
    /\ pc \notin {"exited", "killed", "ended", "propagated"}
    /\ \E w \in InterruptPoints :
         LET swallowed == w \in {"logout_unsent", "logout"}
             stored == w \in {"added", "partial", "written"}
         IN
         /\ processed_uids' = IF stored THEN PendingLedger ELSE processed_uids
         /\ file' = CASE w = "partial" -> PartialFile
                      [] w = "written" -> ValidFile(PendingLedger)
                      [] OTHER -> file
         /\ call' = CASE stored /\ pc = "ps_mark" ->
                           [call EXCEPT !.seq = Append(@, "mark")]
                      [] w = "fetched" ->
                           [call EXCEPT !.seq = <<"fetch">>, !.content = "valid"]
                      [] OTHER -> call
         /\ IF swallowed
            THEN /\ pc' = CASE pc = "h_logout" -> "h_sleep"
                            [] pc = "finally" -> "ended"
                            [] OTHER -> "propagated"
                 /\ sess' = IF w = "logout" THEN "closed" ELSE sess
                 /\ push' = IF w = "logout" THEN FALSE ELSE push
                 /\ trail' = IF pc = "h_logout" THEN Append(trail, "logout") ELSE trail
                 /\ UNCHANGED <<caller, backoff, queue, uid, result, responses>>
                 /\ UNCHANGED <<handed, entered, reentered, filterLedger, passInvoked,
                                drained, lastWait, excBackoff, lastDelay>>
            ELSE /\ pc' = CASE InStartupBlock -> "propagated"
                            [] w = "handler" -> "finally_raise"
                            [] w = "test" -> "propagated"
                            [] OTHER -> "finally"
                 /\ sess' = IF w \in {"open", "auth", "selected", "broken"} THEN w ELSE sess
                 /\ push' = IF w \in {"open", "auth", "selected", "broken"} THEN FALSE
                                                                           ELSE push
                 /\ caller' = "startup"
                 /\ backoff' = initial_backoff
                 /\ queue' = <<>>
                 /\ uid' = 0
                 /\ result' = "none"
                 /\ responses' = "none"
                 /\ UNCHANGED handed
                 /\ entered' = {}
                 /\ reentered' = FALSE
                 /\ filterLedger' = {}
                 /\ passInvoked' = {}
                 /\ drained' = FALSE
                 /\ lastWait' = "none"
                 /\ trail' = <<>>
                 /\ excBackoff' = 0
                 /\ lastDelay' = 0
    /\ UNCHANGED <<mailbox, IMAP_MOVE, stable>>
    /\ UNCHANGED pureVars

\* finally: if self.imap_client: try: self.imap_client.logout() / except: pass;
\* then monitor_mailbox_idle returns, or the KeyboardInterrupt raised in
\* "except KeyboardInterrupt" leaves it
FinalLogout ==
    /\ pc \in {"finally", "finally_raise"}
    /\ sess' = IF sess = "none" THEN "none" ELSE "closed"
    /\ push' = FALSE
    /\ pc' = IF pc = "finally" THEN "ended" ELSE "propagated"
    /\ UNCHANGED <<caller, backoff, processed_uids, queue, uid, result, responses>>
    /\ UNCHANGED <<file, mailbox, IMAP_MOVE, stable>>
    /\ UNCHANGED ghostVars
    /\ UNCHANGED msgVars
    /\ UNCHANGED pureVars

NextInterrupt == Engine \/ Server \/ Interrupt \/ FinalLogout

\* the engine with an operator who may press Ctrl-C at any moment
SpecInterrupt == Init /\ [][NextInterrupt]_vars

(* ============= Sender Reputation Filter (email_parser.py) ============== *)

\* A string is a sequence of one-character strings.

\* str.lower() on one character
LowerChar(c) ==
    CASE c = "A" -> "a"
      [] c = "B" -> "b"
      [] c = "D" -> "d"
      [] c = "G" -> "g"
      [] c = "H" -> "h"
      [] c = "I" -> "i"
      [] c = "N" -> "n"
      [] c = "P" -> "p"
      [] c = "S" -> "s"
      [] OTHER -> c

\* str.lower()
Lower(str) == [i \in DOMAIN str |-> LowerChar(str[i])]

\* str.strip(): leading and trailing white space removed
Strip(str) ==
    LET keep == {i \in DOMAIN str : str[i] # " "}
    IN  IF keep = {} THEN <<>>
        ELSE LET lo == CHOOSE i \in keep : \A j \in keep : i <= j
                 hi == CHOOSE i \in keep : \A j \in keep : j <= i
             IN  SubSeq(str, lo, hi)

\* re.search(r"<([^>]+)>", sender_field): the start positions of a match, a
\* "<" followed by a character other than ">" and, later, a ">"
AngleStarts(str) ==
    {i \in DOMAIN str :
        /\ str[i] = "<"
        /\ i + 1 <= Len(str)
        /\ str[i + 1] # ">"
        /\ \E j \in (i + 2)..Len(str) : str[j] = ">"}

\* match.group(1) of the leftmost match: up to the first ">" after its "<"
AngleGroup(str) ==
    LET i == CHOOSE a \in AngleStarts(str) : \A b \in AngleStarts(str) : a <= b
        j == CHOOSE c \in (i + 2)..Len(str) :
                 /\ str[c] = ">"
                 /\ \A d \in (i + 2)..(c - 1) : str[d] # ">"
    IN  SubSeq(str, i + 1, j - 1)

\* extract_email_address
ExtractEmailAddress(field) ==
    IF field = <<>> THEN <<>>
    ELSE IF AngleStarts(field) # {} THEN Lower(Strip(AngleGroup(field)))
    ELSE Lower(Strip(field))

\* extract_domain: email_address.split("@")[1].lower(), "" without an "@"
ExtractDomain(addr) ==
    LET ats == {i \in DOMAIN addr : addr[i] = "@"}
    IN  IF ats = {} THEN <<>>
        ELSE LET first == CHOOSE i \in ats : \A j \in ats : i <= j
                 rest == {j \in ats : j > first}
                 stop == IF rest = {} THEN Len(addr) + 1
                         ELSE CHOOSE i \in rest : \A j \in rest : i <= j
             IN  Lower(SubSeq(addr, first + 1, stop - 1))

\* entry.startswith("@")
IsDomainEntry(entry) == entry # <<>> /\ entry[1] = "@"

\* the test one list entry is put to: the kind of the match, "none" if none
EntryMatch(entry, addr, domain) ==
    IF IsDomainEntry(entry)
    THEN IF domain = Tail(entry) THEN "domain" ELSE "none"
    ELSE IF addr = entry THEN "email" ELSE "none"

RECURSIVE ScanList(_, _, _)
\* one "for ... in config.X_SENDERS" loop: it breaks at the first entry that
\* matches and records the kind of that match
ScanList(list, addr, domain) ==
    IF list = <<>> THEN "none"
    ELSE IF EntryMatch(Head(list), addr, domain) # "none"
         THEN EntryMatch(Head(list), addr, domain)
         ELSE ScanList(Tail(list), addr, domain)

\* the two attributes of the configuration object the filter reads
ListAttrs == {"DANGEROUS_SENDERS", "SAFE_SENDERS"}

\* check_sender_classification: the label returned ("none" for (None, None)),
\* the number of logging.warning calls, and the exception raised, if any.
\* attrs holds the list attributes the configuration object has: reading one
\* it lacks (line 110, or line 131 after the first scan) is an AttributeError,
\* raised for every sender field but the empty one (lines 103-104).
CheckSenderClassification(field, attrs, dangerous, safe) ==
    LET ret(l, w) == [ran |-> TRUE, label |-> l, warnings |-> w, exc |-> "none"]
    IN
    IF field = <<>> THEN ret("none", 0)
    ELSE IF ListAttrs \ attrs # {}
    THEN [ran |-> TRUE, label |-> "none", warnings |-> 0, exc |-> "AttributeError"]
    ELSE
      LET addr == ExtractEmailAddress(field)
          domain == ExtractDomain(addr)
          dangerous_match_type == ScanList(dangerous, addr, domain)
          safe_match_type == ScanList(safe, addr, domain)
      IN  IF dangerous_match_type # "none" /\ safe_match_type # "none"
          THEN IF dangerous_match_type = safe_match_type
               THEN ret("phishing", 1)
               ELSE IF dangerous_match_type = "email"
                    THEN ret("phishing", 1)
                    ELSE ret("legitimate", 1)
          ELSE IF dangerous_match_type # "none"
               THEN ret("phishing", 0)
          ELSE IF safe_match_type # "none"
               THEN ret("legitimate", 0)
          ELSE ret("none", 0)

\* The sender fields the filter is run on: "a@d", "A@D", " a@d ", "b <a@d>",
\* "<a@d", "b@d", "a@e", "a" and the empty field.
SenderFields ==
    { <<"a", "@", "d">>,
      <<"A", "@", "D">>,
      <<" ", "a", "@", "d", " ">>,
      <<"b", " ", "<", "a", "@", "d", ">">>,
      <<"<", "a", "@", "d">>,
      <<"b", "@", "d">>,
      <<"a", "@", "e">>,
      <<"a">>,
      <<>> }

\* The list entries: "a@d", "@d", "b@d", "@e".
Entries ==
    { <<"a", "@", "d">>, <<"@", "d">>, <<"b", "@", "d">>, <<"@", "e">> }

\* the lists of at most n entries
ListsUpTo(n) == UNION {[1..m -> Entries] : m \in 0..n}

\* The filter is called once, on any sender field, under the configuration of
\* the repository (no list attribute) or one that defines one or both lists;
\* an attribute the configuration lacks has no value (shown as the empty list).
InitFilter ==
    /\ InitEngine
    /\ MoreIdle
    /\ TokenIdle
    /\ ListenerIdle
    /\ LoadIdle
    /\ IMAP_MOVE = FALSE
    /\ sender_field \in SenderFields
    /\ config_attrs \in SUBSET ListAttrs
    /\ DANGEROUS_SENDERS \in ListsUpTo(MaxList)
    /\ SAFE_SENDERS \in ListsUpTo(MaxList)
    /\ "DANGEROUS_SENDERS" \notin config_attrs => DANGEROUS_SENDERS = <<>>
    /\ "SAFE_SENDERS" \notin config_attrs => SAFE_SENDERS = <<>>
    /\ sfReturn = NotCalled

CallFilter ==
    /\ ~sfReturn.ran
    /\ sfReturn' = CheckSenderClassification(sender_field, config_attrs,
                                              DANGEROUS_SENDERS, SAFE_SENDERS)
    /\ UNCHANGED <<sender_field, config_attrs, DANGEROUS_SENDERS, SAFE_SENDERS>>
    /\ UNCHANGED <<engineVars, envVars, ghostVars, msgVars, tokenVars, listenerVars, loadVars, moreVars>>

NextFilter == CallFilter

SpecFilter == InitFilter /\ [][NextFilter]_vars

(* ================== Token Manager (oauth_handler.py) =================== *)

\* load_tokens: "none" for None, "raise" for an exception that is not caught
\* (the handler names FileNotFoundError, json.JSONDecodeError and OSError;
\* UnicodeDecodeError is a ValueError and none of these)
LoadTokens(f) ==
    CASE f.kind \in {"missing", "denied", "truncated"} -> "none"
      [] f.kind = "binary" -> "raise"
      [] OTHER -> "tokens"

\* the validity test without the safety margin
StillValidNoMargin(tokens, t) == tokens.has_expiry /\ tokens.expires_at > t

\* "expires_at" in tokens and tokens["expires_at"] > time.time() + 60
StillValid(tokens, t) == tokens.has_expiry /\ tokens.expires_at > t + safety_margin

\* The answers of the token endpoint to a refresh request:
\*   "network_error"  requests.post raises (connection refused, timeout)
\*   "rejected"       a status other than 200 (e.g. revoked grant)
\*   "ok"             status 200 with a JSON body holding access_token and,
\*                    optionally, expires_in and a new refresh_token
Responses ==
    {[kind |-> "network_error", has_expires_in |-> FALSE, expires_in |-> 0,
      has_refresh |-> FALSE],
     [kind |-> "rejected", has_expires_in |-> FALSE, expires_in |-> 0,
      has_refresh |-> FALSE]}
    \cup
    {[kind |-> "ok", has_expires_in |-> h, expires_in |-> IF h THEN e ELSE 0,
      has_refresh |-> r] : h \in BOOLEAN, e \in {20, 3600}, r \in BOOLEAN}

\* refresh_access_token, lines 123-131: the tokens built from a 200 answer r
\* received at time t; id names the new access (and refresh) token
RefreshedTokens(old, r, t, id) ==
    [kind |-> "valid", access_token |-> id,
     has_expiry |-> r.has_expires_in,
     expires_at |-> IF r.has_expires_in THEN t + r.expires_in ELSE 0,
     has_refresh |-> TRUE,
     refresh_token |-> IF r.has_refresh THEN id ELSE old.refresh_token]

\* save_tokens (lines 138-150): "ok", or OSError with the file as it was
\* ("unchanged": open failed), cut short or empty ("partial": the write
\* failed after open truncated it), or written in full ("chmod": chmod(0o600) at line 147,
\* inside the same try, failed after the with block had closed the file)
TokenSaveOutcomes == {"ok", "unchanged", "partial", "chmod"}

\* get_valid_access_token called at time t on file f, the token endpoint
\* answering r and the file write ending as o: the file afterwards, the
\* number of refresh requests sent, and what the call returns or raises
\* (value 0 with has_value FALSE: None).
GetValidAccessToken(f, t, r, o, id) ==
    LET ret(tf, n, val, has) ==
            [file |-> tf, posts |-> n, outcome |-> "return",
             has_value |-> has, value |-> val, exc |-> "none"]
        raise(tf, n, e) ==
            [file |-> tf, posts |-> n, outcome |-> "raise",
             has_value |-> FALSE, value |-> 0, exc |-> e]
    IN  IF LoadTokens(f) = "raise" THEN raise(f, 0, "UnicodeDecodeError")
        ELSE IF LoadTokens(f) = "none" \/ f.kind = "empty" THEN ret(f, 0, 0, FALSE)
        ELSE IF StillValid(f, t) THEN ret(f, 0, f.access_token, TRUE)
        ELSE IF ~f.has_refresh THEN ret(f, 0, 0, FALSE)
        ELSE IF r.kind = "network_error" THEN raise(f, 1, "ConnectionError")
        ELSE IF r.kind = "rejected" THEN ret(f, 1, 0, FALSE)
        ELSE IF o = "ok" THEN ret(RefreshedTokens(f, r, t, id), 1, id, TRUE)
        ELSE IF o = "unchanged" THEN raise(f, 1, "OSError")
        ELSE IF o = "chmod" THEN raise(RefreshedTokens(f, r, t, id), 1, "OSError")
        ELSE raise(NoTokens("truncated"), 1, "OSError")

\* The places get_valid_access_token is called from during a login:
\*   "first"              _authenticate_oauth, imap_client.py line 114
\*   "interactive"        authenticate_interactive, oauth_handler.py line 302,
\*                        entered from imap_client.py line 120
\*   "after_interactive"  _authenticate_oauth, imap_client.py line 123
\*   "oauth_string"       get_oauth_string, oauth_handler.py line 201, entered
\*                        from imap_client.py line 146 when oauth2_login failed
CallSites == {"first", "interactive", "after_interactive", "oauth_string"}

\* What the caller at the given place does with the result of
\* get_valid_access_token.  In _authenticate_oauth (lines 100-164) every
\* exception becomes LoginError; None starts authenticate_interactive at the
\* first call only, and raises OAuthError (hence LoginError) at line 125 and
\* in get_oauth_string (oauth_handler.py 202-203).  authenticate_interactive
\* (oauth_handler.py 300-335) returns True for a token, goes on to the
\* authorization URL for None, and returns False for the exceptions it
\* catches (OAuthError, OSError, ConnectionError; the ConnectionError of
\* requests is an OSError); any other exception leaves it and becomes
\* LoginError in _authenticate_oauth.
AuthenticateOauth(res, site) ==
    CASE site = "first" ->
           IF res.outcome = "raise" THEN "LoginError"
           ELSE IF ~res.has_value THEN "authenticate_interactive"
           ELSE "oauth2_login"
      [] site = "interactive" ->
           IF res.outcome = "raise"
           THEN IF res.exc \in {"OSError", "ConnectionError"} THEN "return_false"
                ELSE "LoginError"
           ELSE IF ~res.has_value THEN "get_authorization_url"
           ELSE "return_true"
      [] OTHER ->
           IF res.outcome = "raise" \/ ~res.has_value THEN "LoginError"
           ELSE "oauth2_login"

\* remaining lifetimes of the stored access token at the start
Lifetimes == {-3600, 30, 60, 61, 3600}

TokenFiles ==
    {NoTokens(kd) : kd \in {"missing", "denied", "truncated", "binary", "empty"}}
    \cup
    {[kind |-> "valid", access_token |-> 0, has_expiry |-> h,
      expires_at |-> IF h THEN l ELSE 0, has_refresh |-> r, refresh_token |-> 0] :
        h \in BOOLEAN, l \in Lifetimes, r \in BOOLEAN}

InitToken ==
    /\ InitEngine
    /\ MoreIdle
    /\ FilterIdle
    /\ ListenerIdle
    /\ LoadIdle
    /\ IMAP_MOVE = FALSE
    /\ token_file \in TokenFiles
    /\ now = 0
    /\ tmCall = NoCall

\* one call of get_valid_access_token, made from one of its call sites d
\* seconds after the previous one
CallToken ==
    /\ tmCall.n < MaxCalls
    /\ \E d \in {0, 3600}, r \in Responses, o \in TokenSaveOutcomes, site \in CallSites :
         LET res == GetValidAccessToken(token_file, now + d, r, o, tmCall.n + 1)
         IN  /\ now' = now + d
             /\ token_file' = res.file
             /\ tmCall' = [n |-> tmCall.n + 1, at |-> now + d, before |-> token_file,
                           posts |-> res.posts,
                           response |-> IF res.posts = 0 THEN "none" ELSE r.kind,
                           carried |-> (res.posts = 1 /\ r.has_refresh),
                           saved |-> IF res.posts = 1 /\ r.kind = "ok" THEN o ELSE "none",
                           outcome |-> res.outcome, has_value |-> res.has_value,
                           value |-> res.value, exc |-> res.exc,
                           site |-> site,
                           next |-> AuthenticateOauth(res, site)]
    /\ UNCHANGED <<engineVars, envVars, ghostVars, msgVars, filterVars, listenerVars, loadVars, moreVars>>

NextToken == CallToken

SpecToken == InitToken /\ [][NextToken]_vars

(* ============ OAuth callback listener (oauth_handler.py) =============== *)

\* timeout = 300  # 5 minutes
timeout == 300

\* What one time.sleep(1) can add to time.time() - start_time: the second asked
\* for, or more when the process is not scheduled (or the machine is suspended).
SleepLengths == {1, MaxSleep}

\* start_local_server is called once
InitListener ==
    /\ InitEngine
    /\ MoreIdle
    /\ FilterIdle
    /\ TokenIdle
    /\ LoadIdle
    /\ IMAP_MOVE = FALSE
    /\ ls_pc = "call"
    /\ server = "none"
    /\ server_thread = "none"
    /\ authorization_code = FALSE
    /\ server_error = FALSE
    /\ elapsed = 0
    /\ ls_outcome = "none"

\* How lines 270-273 can end:
\*   "started"  the socket is bound and listening, the thread serves
\*   "bind"     TCPServer(("", port), ...) raises OSError: the port cannot be
\*              bound, nothing has been started
\*   "thread"   server_thread.start() raises RuntimeError (no thread can be
\*              created): the socket of line 270 is bound and listening
StartOutcomes == {"started", "bind", "thread"}

\* lines 270-273 and 278: TCPServer(("", port), CallbackHandler) binds and
\* listens, the daemon thread starts serve_forever, start_time is taken.
\* These lines are not inside the try of line 275: an exception raised here
\* leaves the function without passing through the finally block.
LsStart ==
    /\ ls_pc = "call"
    /\ \E o \in StartOutcomes :
         CASE o = "started" ->
                /\ server' = "listening"
                /\ server_thread' = "serving"
                /\ ls_pc' = "wait"
                /\ UNCHANGED ls_outcome
           [] o = "bind" ->
                /\ ls_pc' = "raised"
                /\ ls_outcome' = "bind"
                /\ UNCHANGED <<server, server_thread>>
           [] o = "thread" ->
                /\ server' = "listening"
                /\ ls_pc' = "raised"
                /\ ls_outcome' = "thread"
                /\ UNCHANGED server_thread
    /\ UNCHANGED <<authorization_code, server_error, elapsed>>
    /\ UNCHANGED <<engineVars, envVars, ghostVars, msgVars, filterVars, tokenVars, loadVars, moreVars>>

\* CallbackHandler.do_GET, run by the serve_forever thread for one request:
\* q says what the query string carries
DoGet(q) ==
    /\ server = "listening"
    /\ server_thread = "serving"
    /\ authorization_code' = (authorization_code \/ q = "code")
    /\ server_error' = IF q = "error" THEN TRUE ELSE server_error
    /\ UNCHANGED <<ls_pc, server, server_thread, elapsed, ls_outcome>>
    /\ UNCHANGED <<engineVars, envVars, ghostVars, msgVars, filterVars, tokenVars, loadVars, moreVars>>

\* the wait loop whose timeout leaves the function at once, past the
\* "finally" block
LsWaitTimeoutSkipsFinally ==
    /\ ls_pc = "wait"
    /\ IF ~authorization_code /\ ~server_error
       THEN IF elapsed > timeout
            THEN /\ ls_pc' = "raised"
                 /\ ls_outcome' = "timeout"
                 /\ UNCHANGED elapsed
            ELSE /\ \E d \in SleepLengths : elapsed' = elapsed + d
                 /\ UNCHANGED <<ls_pc, ls_outcome>>
       ELSE /\ ls_pc' = "shutdown"
            /\ ls_outcome' = IF server_error THEN "error" ELSE "code"
            /\ UNCHANGED elapsed
    /\ UNCHANGED <<server, server_thread, authorization_code, server_error>>
    /\ UNCHANGED <<engineVars, envVars, ghostVars, msgVars, filterVars, tokenVars, loadVars, moreVars>>

\* lines 280-291, one test of the while condition: sleep another second,
\* raise OAuthError after the timeout, raise it for a reported error, or
\* return the code.  Every way out of the try block enters "finally".
LsWait ==
    /\ ls_pc = "wait"
    /\ IF ~authorization_code /\ ~server_error
       THEN IF elapsed > timeout
            THEN /\ ls_pc' = "shutdown"
                 /\ ls_outcome' = "timeout"
                 /\ UNCHANGED elapsed
            ELSE /\ \E d \in SleepLengths : elapsed' = elapsed + d
                 /\ UNCHANGED <<ls_pc, ls_outcome>>
       ELSE /\ ls_pc' = "shutdown"
            /\ ls_outcome' = IF server_error THEN "error" ELSE "code"
            /\ UNCHANGED elapsed
    /\ UNCHANGED <<server, server_thread, authorization_code, server_error>>
    /\ UNCHANGED <<engineVars, envVars, ghostVars, msgVars, filterVars, tokenVars, loadVars, moreVars>>

\* finally: server.shutdown() asks serve_forever to stop and returns when its
\* loop has ended
LsShutdown ==
    /\ ls_pc = "shutdown"
    /\ server_thread' = "stopped"
    /\ ls_pc' = "close"
    /\ UNCHANGED <<server, authorization_code, server_error, elapsed, ls_outcome>>
    /\ UNCHANGED <<engineVars, envVars, ghostVars, msgVars, filterVars, tokenVars, loadVars, moreVars>>

\* finally: server.server_close() closes the socket; then the pending return
\* or exception takes effect
LsClose ==
    /\ ls_pc = "close"
    /\ server' = "closed"
    /\ ls_pc' = IF ls_outcome = "code" THEN "returned" ELSE "raised"
    /\ UNCHANGED <<server_thread, authorization_code, server_error, elapsed, ls_outcome>>
    /\ UNCHANGED <<engineVars, envVars, ghostVars, msgVars, filterVars, tokenVars, loadVars, moreVars>>

\* The server object of line 270 is reclaimed after start_local_server was
\* left with the socket open (thread start failed) and the caller has
\* dropped the exception: the socket is closed with the object.  Until then
\* the port stays bound and connections are accepted and never answered.
LsReclaim ==
    /\ ls_pc = "raised"
    /\ server = "listening"
    /\ server' = "closed"
    /\ UNCHANGED <<ls_pc, server_thread, authorization_code, server_error, elapsed,
                   ls_outcome>>
    /\ UNCHANGED <<engineVars, envVars, ghostVars, msgVars, filterVars, tokenVars, loadVars, moreVars>>

Browser == \E q \in {"code", "error", "other"} : DoGet(q)

NextListener == LsStart \/ LsWait \/ LsShutdown \/ LsClose \/ LsReclaim \/ Browser

SpecListener == InitListener /\ [][NextListener]_vars

(* ========== loading the ledger file (imap_client.py, 35-46) ============ *)

\* the decimal digits a string item can hold, with their values
DigitValue(c) == CASE c = "1" -> 1 [] c = "2" -> 2 [] OTHER -> -1

RECURSIVE IntOfDigits(_)
\* int(s) for a string of decimal digits
IntOfDigits(s) ==
    IF s = <<>> THEN 0
    ELSE 10 * IntOfDigits(SubSeq(s, 1, Len(s) - 1)) + DigitValue(s[Len(s)])

\* int(uid) for one item: the integer, or the exception int() raises.
\* int("x") and int("") raise ValueError, int(None) raises TypeError,
\* int(1.5) is 1.
IntOf(item) ==
    CASE item.t = "int" -> [ok |-> TRUE, v |-> item.v, exc |-> "none"]
      [] item.t = "float" -> [ok |-> TRUE, v |-> item.v, exc |-> "none"]
      [] item.t = "str" ->
            IF item.s # <<>> /\ \A i \in DOMAIN item.s : DigitValue(item.s[i]) >= 0
            THEN [ok |-> TRUE, v |-> IntOfDigits(item.s), exc |-> "none"]
            ELSE [ok |-> FALSE, v |-> 0, exc |-> "ValueError"]
      [] OTHER -> [ok |-> FALSE, v |-> 0, exc |-> "TypeError"]

RECURSIVE SetOfInts(_)
\* set(int(uid) for uid in items): the set, or the first exception
SetOfInts(items) ==
    IF items = <<>> THEN [ok |-> TRUE, uids |-> {}, exc |-> "none"]
    ELSE LET h == IntOf(Head(items))
             r == SetOfInts(Tail(items))
         IN  IF ~h.ok THEN [ok |-> FALSE, uids |-> {}, exc |-> h.exc]
             ELSE IF ~r.ok THEN r
             ELSE [ok |-> TRUE, uids |-> {h.v} \cup r.uids, exc |-> "none"]

\* the exceptions named by "except (json.JSONDecodeError, ValueError, OSError)"
\* (UnicodeDecodeError is a ValueError)
LoadCaught == {"JSONDecodeError", "ValueError", "UnicodeDecodeError", "OSError"}

\* what the body of the try block (lines 38-43) does on document d
LoadBody(d) ==
    LET ret(S) == [outcome |-> "return", exc |-> "none", uids |-> S]
        raise(e) == [outcome |-> "raise", exc |-> e, uids |-> {}]
    IN  CASE d.kind = "missing" -> ret({})
          [] d.kind = "denied" -> raise("OSError")
          [] d.kind = "binary" -> raise("UnicodeDecodeError")
          [] d.kind = "truncated" -> raise("JSONDecodeError")
          [] d.top # "object" -> raise("AttributeError")
          [] d.value = "absent" -> ret({})
          [] d.value \in {"number", "null"} -> raise("TypeError")
          [] OTHER -> LET r == SetOfInts(d.items)
                      IN  IF r.ok THEN ret(r.uids) ELSE raise(r.exc)

\* _load_processed_uids on document d: the set returned, or the exception
\* that leaves the call (and EmailProcessor.__init__)
LoadProcessedUidsDoc(d) ==
    LET b == LoadBody(d)
    IN  IF b.outcome = "raise" /\ b.exc \in LoadCaught
        THEN [ran |-> TRUE, outcome |-> "return", exc |-> "none", uids |-> {}]
        ELSE [ran |-> TRUE, outcome |-> b.outcome, exc |-> b.exc, uids |-> b.uids]

\* the items: 1, 2, 1.5, "2", "x", null
Items ==
    { [t |-> "int", v |-> 1], [t |-> "int", v |-> 2], [t |-> "float", v |-> 1],
      [t |-> "str", s |-> <<"2">>], [t |-> "str", s |-> <<"x">>], [t |-> "null"] }

\* the characters of a string value and the keys of an object value
StrItems == { [t |-> "str", s |-> <<c>>] : c \in {"1", "2", "x"} }

SeqsUpTo(S, n) == UNION {[1..m -> S] : m \in 0..n}

\* the documents the loader is run on
Docs ==
    {Doc(kd, "none", "absent", <<>>) : kd \in {"missing", "denied", "binary", "truncated"}}
    \cup {Doc("json", tp, "absent", <<>>) : tp \in {"object", "array", "number", "string", "null"}}
    \cup {Doc("json", "object", vl, <<>>) : vl \in {"number", "null"}}
    \cup {Doc("json", "object", "list", it) : it \in SeqsUpTo(Items, MaxList)}
    \cup {Doc("json", "object", vl, it) : vl \in {"string", "object"},
                                          it \in SeqsUpTo(StrItems, MaxList)}

\* EmailProcessor.__init__ runs on any of the documents
InitLoad ==
    /\ InitEngine
    /\ MoreIdle
    /\ FilterIdle
    /\ TokenIdle
    /\ ListenerIdle
    /\ IMAP_MOVE = FALSE
    /\ processed_uids_file \in Docs
    /\ ldReturn = NotLoaded

CallLoad ==
    /\ ~ldReturn.ran
    /\ ldReturn' = LoadProcessedUidsDoc(processed_uids_file)
    /\ UNCHANGED processed_uids_file
    /\ UNCHANGED <<engineVars, envVars, ghostVars, msgVars, filterVars, tokenVars,
                   listenerVars, moreVars>>

NextLoad == CallLoad

SpecLoad == InitLoad /\ [][NextLoad]_vars

(* ===== the end of process_single_email and move_email (imap_client.py) == *)

\* "phishing", the label move_email compares with
PhishingLabel == <<"p", "h", "i", "s", "h", "i", "n", "g">>

\* What result["classification"] can be: a string ("phishing", "PHISHING",
\* "Phishing", "phish", "legitimate", ""), absent from the result, or a JSON
\* null.
Classifications ==
    {[t |-> "str", s |-> v] :
        v \in {PhishingLabel,
               <<"P", "H", "I", "S", "H", "I", "N", "G">>,
               <<"P", "h", "i", "s", "h", "i", "n", "g">>,
               <<"p", "h", "i", "s", "h">>,
               <<"l", "e", "g", "i", "t", "i", "m", "a", "t", "e">>,
               <<>>}}
    \cup {[t |-> "absent", s |-> <<>>], [t |-> "null", s |-> <<>>]}

\* The values of the MOVE_TO_FOLDER setting: "", " " and "J".
Folders == {<<>>, <<" ">>, <<"J">>}

\* config.py, line 40: IMAP_MOVE = bool(MOVE_TO_FOLDER.strip())
ImapMove(folder) == Strip(folder) # <<>>

\* result.get("classification", "").lower(): the string compared with
\* "phishing"; a value that is not a string has no lower() (AttributeError)
ClsOf(c) ==
    CASE c.t = "str" -> [ok |-> TRUE, s |-> Lower(c.s)]
      [] c.t = "absent" -> [ok |-> TRUE, s |-> <<>>]
      [] OTHER -> [ok |-> FALSE, s |-> <<>>]

\* process_single_email(TheUid) has a result and is about to call notify_user
\* (line 243); the ledger holds any of the other ids
InitMove ==
    /\ InitEngine
    /\ FilterIdle
    /\ TokenIdle
    /\ ListenerIdle
    /\ LoadIdle
    /\ SaveIdle
    /\ MarkerIdle
    /\ KeepIdle
    /\ MOVE_TO_FOLDER \in Folders
    /\ IMAP_MOVE = ImapMove(MOVE_TO_FOLDER)
    /\ classification \in Classifications
    /\ me_pc = "notify"
    /\ me_uids \in SUBSET (UIDs \ {TheUid})
    /\ me_calls = <<>>
    /\ me_moved = "no"
    /\ me_handler = FALSE

\* line 243: notify_user(...) returns, or raises into the handler at line 251
MeNotify ==
    /\ me_pc = "notify"
    /\ \E ok \in BOOLEAN :
         /\ me_pc' = IF ok THEN "mark" ELSE "handler"
         /\ me_handler' = ~ok
    /\ me_calls' = Append(me_calls, "notify")
    /\ UNCHANGED <<MOVE_TO_FOLDER, classification, me_uids, me_moved>>
    /\ UNCHANGED <<engineVars, envVars, ghostVars, msgVars, filterVars, tokenVars,
                   listenerVars, loadVars, saveVars, markerVars, keepVars>>

\* line 246: self._mark_uid_processed(uid)
MeMark ==
    /\ me_pc = "mark"
    /\ me_uids' = me_uids \cup {TheUid}
    /\ me_calls' = Append(me_calls, "mark")
    /\ me_pc' = "move_email"
    /\ UNCHANGED <<MOVE_TO_FOLDER, classification, me_moved, me_handler>>
    /\ UNCHANGED <<engineVars, envVars, ghostVars, msgVars, filterVars, tokenVars,
                   listenerVars, loadVars, saveVars, markerVars, keepVars>>

\* a move_email that moves the message whatever its label
MoveEmailAnyLabel ==
    /\ me_pc = "move_email"
    /\ IF ~IMAP_MOVE
       THEN me_pc' = "returned" /\ UNCHANGED <<me_calls, me_moved, me_handler>>
       ELSE /\ \E ok \in BOOLEAN : me_moved' = IF ok THEN "ok" ELSE "failed"
            /\ me_calls' = Append(me_calls, "move")
            /\ me_pc' = "returned"
            /\ UNCHANGED me_handler
    /\ UNCHANGED <<MOVE_TO_FOLDER, classification, me_uids>>
    /\ UNCHANGED <<engineVars, envVars, ghostVars, msgVars, filterVars, tokenVars,
                   listenerVars, loadVars, saveVars, markerVars, keepVars>>

\* line 249 and lines 174-194: self.move_email(uid, result).  Without a
\* destination folder it returns at once; lower() of a value that is not a
\* string raises into the handler at line 251; a label other than "phishing"
\* returns; otherwise imap_client.move is called, and its failure is logged.
MoveEmail ==
    /\ me_pc = "move_email"
    /\ IF ~IMAP_MOVE
       THEN me_pc' = "returned" /\ UNCHANGED <<me_calls, me_moved, me_handler>>
       ELSE IF ~ClsOf(classification).ok
       THEN me_pc' = "handler" /\ me_handler' = TRUE /\ UNCHANGED <<me_calls, me_moved>>
       ELSE IF ClsOf(classification).s # PhishingLabel
       THEN me_pc' = "returned" /\ UNCHANGED <<me_calls, me_moved, me_handler>>
       ELSE /\ \E ok \in BOOLEAN : me_moved' = IF ok THEN "ok" ELSE "failed"
            /\ me_calls' = Append(me_calls, "move")
            /\ me_pc' = "returned"
            /\ UNCHANGED me_handler
    /\ UNCHANGED <<MOVE_TO_FOLDER, classification, me_uids>>
    /\ UNCHANGED <<engineVars, envVars, ghostVars, msgVars, filterVars, tokenVars,
                   listenerVars, loadVars, saveVars, markerVars, keepVars>>

\* lines 251-256: the handler logs and marks the id
MeHandler ==
    /\ me_pc = "handler"
    /\ me_uids' = me_uids \cup {TheUid}
    /\ me_calls' = Append(me_calls, "mark")
    /\ me_pc' = "returned"
    /\ UNCHANGED <<MOVE_TO_FOLDER, classification, me_moved, me_handler>>
    /\ UNCHANGED <<engineVars, envVars, ghostVars, msgVars, filterVars, tokenVars,
                   listenerVars, loadVars, saveVars, markerVars, keepVars>>

NextMove == MeNotify \/ MeMark \/ MoveEmail \/ MeHandler

SpecMove == InitMove /\ [][NextMove]_vars

(* ============= save_tokens and revoke_tokens (oauth_handler.py) ======== *)

\* self.token_file.chmod(0o600)
owner_only == 384

\* The masks the process can run with: 0o000, 0o002, 0o007, 0o022, 0o027
\* and 0o077.
Umasks == {0, 2, 7, 18, 23, 63}

RECURSIVE BitAnd(_, _)
\* a & b on non-negative integers
BitAnd(a, b) ==
    IF a = 0 \/ b = 0 THEN 0
    ELSE (a % 2) * (b % 2) + 2 * BitAnd(a \div 2, b \div 2)

\* the mode of a file that open(path, "w") creates: 0o666 & ~umask
CreateMode(um) == BitAnd(438, 511 - um)

\* no permission bit is set for the group or for others
OwnerOnly(mode) == BitAnd(mode, 63) = 0

\* the first save_tokens call of an installation: no token file yet
InitSave ==
    /\ InitEngine
    /\ FilterIdle
    /\ TokenIdle
    /\ ListenerIdle
    /\ LoadIdle
    /\ MoveIdle
    /\ MarkerIdle
    /\ KeepIdle
    /\ IMAP_MOVE = FALSE
    /\ umask \in Umasks
    /\ tokfile = NoTokFile
    /\ sv_pc = "call"
    /\ sv_n = 1

\* line 143: open(self.token_file, "w", encoding="utf-8") creates the file
\* with the mode the mask leaves, or truncates the one that exists keeping its
\* mode; or it raises OSError
SvOpen ==
    /\ sv_pc = "call"
    /\ \E ok \in BOOLEAN :
         IF ok
         THEN /\ tokfile' = [exists |-> TRUE,
                             mode |-> IF tokfile.exists THEN tokfile.mode
                                      ELSE CreateMode(umask),
                             content |-> "empty"]
              /\ sv_pc' = "opened"
         ELSE /\ sv_pc' = "raised"
              /\ UNCHANGED tokfile
    /\ UNCHANGED <<umask, sv_n>>
    /\ UNCHANGED <<engineVars, envVars, ghostVars, msgVars, filterVars, tokenVars,
                   listenerVars, loadVars, moveVars, markerVars, keepVars>>

\* What the write of the with block leaves in the file: all of the tokens,
\* a part of them, or nothing (json.dump fills the buffer and the bytes go
\* out when the file is closed: on a full disk none of them is written and
\* the file stays as open() truncated it)
DumpOutcomes == {"tokens", "partial", "empty"}

\* line 144 and the end of the with block: the tokens are written and the
\* file is closed, or the write fails (the exception is re-raised at line
\* 151) with a part of the tokens in the file or none
SvDump ==
    /\ sv_pc = "opened"
    /\ \E o \in DumpOutcomes :
         /\ tokfile' = [tokfile EXCEPT !.content = o]
         /\ sv_pc' = IF o = "tokens" THEN "written" ELSE "raised"
    /\ UNCHANGED <<umask, sv_n>>
    /\ UNCHANGED <<engineVars, envVars, ghostVars, msgVars, filterVars, tokenVars,
                   listenerVars, loadVars, moveVars, markerVars, keepVars>>

\* line 147: self.token_file.chmod(0o600), or OSError (re-raised at line 151)
SvChmod ==
    /\ sv_pc = "written"
    /\ \E ok \in BOOLEAN :
         /\ tokfile' = IF ok THEN [tokfile EXCEPT !.mode = owner_only] ELSE tokfile
         /\ sv_pc' = IF ok THEN "returned" ELSE "raised"
    /\ UNCHANGED <<umask, sv_n>>
    /\ UNCHANGED <<engineVars, envVars, ghostVars, msgVars, filterVars, tokenVars,
                   listenerVars, loadVars, moveVars, markerVars, keepVars>>

\* save_tokens is called again (the next refresh or code exchange)
SvAgain ==
    /\ sv_pc \in {"returned", "raised"}
    /\ sv_n < MaxCalls
    /\ sv_pc' = "call"
    /\ sv_n' = sv_n + 1
    /\ UNCHANGED <<umask, tokfile>>
    /\ UNCHANGED <<engineVars, envVars, ghostVars, msgVars, filterVars, tokenVars,
                   listenerVars, loadVars, moveVars, markerVars, keepVars>>

\* revoke_tokens, between two saves: the token file is deleted
RevokeTokens ==
    /\ sv_pc \in {"returned", "raised"}
    /\ tokfile.exists
    /\ tokfile' = NoTokFile
    /\ UNCHANGED <<umask, sv_pc, sv_n>>
    /\ UNCHANGED <<engineVars, envVars, ghostVars, msgVars, filterVars, tokenVars,
                   listenerVars, loadVars, moveVars, markerVars, keepVars>>

NextSave == SvOpen \/ SvDump \/ SvChmod \/ SvAgain \/ RevokeTokens

SpecSave == InitSave /\ [][NextSave]_vars

(* ====== the server-side marker variant: main.py, lines 169-218 ========= *)

\* The mailbox holds the messages UIDs, all unseen (main.py never sets \Seen),
\* some of them flagged by an earlier run; the first drain pass starts.
InitMarker ==
    /\ InitEngine
    /\ FilterIdle
    /\ TokenIdle
    /\ ListenerIdle
    /\ LoadIdle
    /\ MoveIdle
    /\ SaveIdle
    /\ KeepIdle
    /\ IMAP_MOVE = FALSE
    /\ mk_pc = "search"
    /\ mk_flags \in SUBSET UIDs
    /\ mk_queue = <<>>
    /\ mk_uid = 0
    /\ mk_ret = 0
    /\ mk_passes = [u \in UIDs |-> 0]
    /\ mk_pass = 1

\* line 215: search(['UNSEEN', 'NOT', 'KEYWORD', 'StopThePhish_Processed']);
\* when it raises the pass is over (the caller's handler reconnects)
MkSearch ==
    /\ mk_pc = "search"
    /\ \E ok \in BOOLEAN :
         IF ok THEN /\ mk_queue' = SortedSeq(UIDs \ mk_flags)
                    /\ mk_pc' = "loop"
               ELSE /\ mk_pc' = "pass_end"
                    /\ UNCHANGED mk_queue
    /\ mk_ret' = 0
    /\ UNCHANGED <<mk_flags, mk_uid, mk_passes, mk_pass>>
    /\ UNCHANGED <<engineVars, envVars, ghostVars, msgVars, filterVars, tokenVars,
                   listenerVars, loadVars, moveVars, saveVars, keepVars>>

\* lines 217-218: for uid in uids: process_single_email(client_imap, uid)
MkFor ==
    /\ mk_pc = "loop"
    /\ IF mk_queue = <<>>
       THEN mk_pc' = "pass_end" /\ UNCHANGED <<mk_queue, mk_uid>>
       ELSE /\ mk_uid' = Head(mk_queue)
            /\ mk_queue' = Tail(mk_queue)
            /\ mk_pc' = "fetch"
    /\ mk_ret' = 0
    /\ UNCHANGED <<mk_flags, mk_passes, mk_pass>>
    /\ UNCHANGED <<engineVars, envVars, ghostVars, msgVars, filterVars, tokenVars,
                   listenerVars, loadVars, moveVars, saveVars, keepVars>>

\* lines 173-183: the fetch returns bytes, something else, or raises; then
\* parse_email_bytes and format_email run, and either can raise
MkFetch ==
    /\ mk_pc = "fetch"
    /\ \E o \in FetchOutcomes :
         mk_pc' = CASE o = "valid" -> "classify"
                    [] o = "invalid" -> "flag_invalid"
                    [] OTHER -> "handler"
    /\ UNCHANGED <<mk_flags, mk_queue, mk_uid, mk_ret, mk_passes, mk_pass>>
    /\ UNCHANGED <<engineVars, envVars, ghostVars, msgVars, filterVars, tokenVars,
                   listenerVars, loadVars, moveVars, saveVars, keepVars>>

\* lines 177-181: add_flags for content that is not bytes, then return; an
\* exception of add_flags goes to the handler at line 202
MkFlagInvalid ==
    /\ mk_pc = "flag_invalid"
    /\ \E ok \in BOOLEAN :
         IF ok THEN /\ mk_flags' = mk_flags \cup {mk_uid}
                    /\ mk_pc' = "loop"
                    /\ mk_ret' = mk_uid
                    /\ mk_uid' = 0
               ELSE /\ mk_pc' = "handler"
                    /\ UNCHANGED <<mk_flags, mk_ret, mk_uid>>
    /\ UNCHANGED <<mk_queue, mk_passes, mk_pass>>
    /\ UNCHANGED <<engineVars, envVars, ghostVars, msgVars, filterVars, tokenVars,
                   listenerVars, loadVars, moveVars, saveVars, keepVars>>

\* line 187: result = classify_email(preview), which returns or raises
MkClassify ==
    /\ mk_pc = "classify"
    /\ mk_passes' = [mk_passes EXCEPT ![mk_uid] = Min(@ + 1, 2)]
    /\ \E ok \in BOOLEAN : mk_pc' = IF ok THEN "notify" ELSE "handler"
    /\ UNCHANGED <<mk_flags, mk_queue, mk_uid, mk_ret, mk_pass>>
    /\ UNCHANGED <<engineVars, envVars, ghostVars, msgVars, filterVars, tokenVars,
                   listenerVars, loadVars, moveVars, saveVars, keepVars>>

\* lines 188-190: result.get and notify_user; notify_user catches the errors
\* of its request, an exception can still come from building the message
MkNotify ==
    /\ mk_pc = "notify"
    /\ \E ok \in BOOLEAN : mk_pc' = IF ok THEN "flag" ELSE "handler"
    /\ UNCHANGED <<mk_flags, mk_queue, mk_uid, mk_ret, mk_passes, mk_pass>>
    /\ UNCHANGED <<engineVars, envVars, ghostVars, msgVars, filterVars, tokenVars,
                   listenerVars, loadVars, moveVars, saveVars, keepVars>>

\* lines 193-200 and lines 207-211: add_flags(uid, 'StopThePhish_Processed')
\* inside try/except, after the Notifier or in the handler of line 202; when
\* it raises, a warning is logged and process_single_email returns
MkFlag ==
    /\ mk_pc \in {"flag", "handler"}
    /\ \E ok \in BOOLEAN :
         mk_flags' = IF ok THEN mk_flags \cup {mk_uid} ELSE mk_flags
    /\ mk_pc' = "loop"
    /\ mk_ret' = mk_uid
    /\ mk_uid' = 0
    /\ UNCHANGED <<mk_queue, mk_passes, mk_pass>>
    /\ UNCHANGED <<engineVars, envVars, ghostVars, msgVars, filterVars, tokenVars,
                   listenerVars, loadVars, moveVars, saveVars, keepVars>>

\* the monitor loop calls process_unseen again (EXISTS after a wait)
MkNextPass ==
    /\ mk_pc = "pass_end"
    /\ mk_pass < MaxCalls
    /\ mk_pass' = mk_pass + 1
    /\ mk_pc' = "search"
    /\ UNCHANGED <<mk_flags, mk_queue, mk_uid, mk_ret, mk_passes>>
    /\ UNCHANGED <<engineVars, envVars, ghostVars, msgVars, filterVars, tokenVars,
                   listenerVars, loadVars, moveVars, saveVars, keepVars>>

NextMarker ==
    MkSearch \/ MkFor \/ MkFetch \/ MkFlagInvalid \/ MkClassify \/ MkNotify
    \/ MkFlag \/ MkNextPass

SpecMarker == InitMarker /\ [][NextMarker]_vars

(* ===== the main loop with its clock: imap_client.py, lines 299-357 ===== *)

\* idle_timeout = 120
idle_timeout == 120

\* noop_interval = 600
noop_interval == 600

\* every value of time.time() - last_noop above noop_interval behaves alike
SinceCap == noop_interval + 1

\* how long idle_check(timeout=idle_timeout) blocks: a response is there at
\* once, or the timeout passes
IdleLengths == {0, idle_timeout}

\* what process_unseen does when the responses hold EXISTS: "none" (no
\* EXISTS, no drain), "ok" (the drain returns), "raise" (the SEARCH of line
\* 264 raises)
DrainResults == {"none", "ok", "raise"}

\* the session self.imap_client refers to after connect() ended as o: a
\* transport failure raises before self.imap_client is assigned, so the old
\* client stays
KaConnectResult(o, cur) ==
    CASE o = "ok" -> "selected"
      [] o = "select" -> "auth"
      [] o = "login" -> "open"
      [] o = "login_network" -> "broken"
      [] OTHER -> cur

\* the server answers commands on the session (NOOP is valid in every state
\* of a connection)
KaAlive == ka_state \in {"selected", "auth", "open"}

\* lines 299-304: the startup block is over, the session is selected and
\* last_noop = time.time()
InitKeep ==
    /\ InitEngine
    /\ FilterIdle
    /\ TokenIdle
    /\ ListenerIdle
    /\ LoadIdle
    /\ MoveIdle
    /\ SaveIdle
    /\ MarkerIdle
    /\ IMAP_MOVE = FALSE
    /\ ka_pc = "loop_top"
    /\ ka_state = "selected"
    /\ ka_since = 0
    /\ ka_backoff = initial_backoff
    /\ ka_wait_open = FALSE
    /\ ka_noop_failed = FALSE
    /\ ka_last = "none"
    /\ ka_trail = <<>>
    /\ ka_k = 0

\* a loop top where a failing keepalive is only logged
KaLoopTopFailureLogged ==
    /\ ka_pc = "loop_top"
    /\ IF ka_since > noop_interval
       THEN \E ok \in BOOLEAN :
              /\ ok => KaAlive
              /\ ka_since' = IF ok THEN 0 ELSE ka_since
              /\ ka_last' = IF ok THEN "noop_ok" ELSE "noop_fail"
              /\ ka_noop_failed' = (ka_noop_failed \/ ~ok)
              /\ ka_trail' = IF ok THEN <<>> ELSE <<"noop_fail">>
              /\ ka_pc' = "idle"
       ELSE /\ ka_pc' = "idle"
            /\ UNCHANGED <<ka_since, ka_last, ka_noop_failed, ka_trail>>
    /\ UNCHANGED <<ka_state, ka_backoff, ka_wait_open, ka_k>>
    /\ UNCHANGED <<engineVars, envVars, ghostVars, msgVars, filterVars, tokenVars,
                   listenerVars, loadVars, moveVars, saveVars, markerVars>>

\* lines 309-317: when more than noop_interval seconds passed since last_noop,
\* noop() is sent; on success last_noop is set, on failure the exception is
\* raised again and reaches the handler at line 338
KaLoopTop ==
    /\ ka_pc = "loop_top"
    /\ IF ka_since > noop_interval
       THEN \E ok \in BOOLEAN :
              /\ ok => KaAlive
              /\ ka_since' = IF ok THEN 0 ELSE ka_since
              /\ ka_last' = IF ok THEN "noop_ok" ELSE "noop_fail"
              /\ ka_noop_failed' = (ka_noop_failed \/ ~ok)
              /\ ka_trail' = IF ok THEN <<>> ELSE <<"noop_fail">>
              /\ ka_pc' = IF ok THEN "idle" ELSE "h_logout"
       ELSE /\ ka_pc' = "idle"
            /\ UNCHANGED <<ka_since, ka_last, ka_noop_failed, ka_trail>>
    /\ UNCHANGED <<ka_state, ka_backoff, ka_wait_open, ka_k>>
    /\ UNCHANGED <<engineVars, envVars, ghostVars, msgVars, filterVars, tokenVars,
                   listenerVars, loadVars, moveVars, saveVars, markerVars>>

\* line 320: self.imap_client.idle()
KaIdle ==
    /\ ka_pc = "idle"
    /\ \E ok \in BOOLEAN :
         /\ ok => ka_state = "selected"
         /\ ka_wait_open' = (ka_wait_open \/ ok)
         /\ ka_last' = IF ok THEN "idle_ok" ELSE "idle_fail"
         /\ ka_pc' = IF ok THEN "idle_check" ELSE "h_logout"
    /\ ka_trail' = <<>>
    /\ UNCHANGED <<ka_state, ka_since, ka_backoff, ka_noop_failed, ka_k>>
    /\ UNCHANGED <<engineVars, envVars, ghostVars, msgVars, filterVars, tokenVars,
                   listenerVars, loadVars, moveVars, saveVars, markerVars>>

\* line 321: responses = self.imap_client.idle_check(timeout=idle_timeout)
KaIdleCheck ==
    /\ ka_pc = "idle_check"
    /\ \E ok \in BOOLEAN, d \in IdleLengths :
         /\ ok => ka_state = "selected"
         /\ ka_since' = Min(ka_since + d, SinceCap)
         /\ ka_pc' = IF ok THEN "idle_done" ELSE "h_logout"
    /\ ka_last' = "idle_check"
    /\ UNCHANGED <<ka_state, ka_backoff, ka_wait_open, ka_noop_failed, ka_trail, ka_k>>
    /\ UNCHANGED <<engineVars, envVars, ghostVars, msgVars, filterVars, tokenVars,
                   listenerVars, loadVars, moveVars, saveVars, markerVars>>

\* lines 322-336: idle_done() ends the wait, backoff is reset, and an EXISTS
\* response starts a drain pass
KaIdleDone ==
    /\ ka_pc = "idle_done"
    /\ \E ok \in BOOLEAN, r \in DrainResults :
         /\ ok => ka_state = "selected"
         /\ IF ok
            THEN /\ ka_wait_open' = FALSE
                 /\ ka_backoff' = initial_backoff
                 /\ ka_k' = 0
                 /\ ka_pc' = IF r = "raise" THEN "h_logout" ELSE "loop_top"
                 /\ ka_last' = IF r = "none" THEN "idle_done" ELSE "drain"
            ELSE /\ ka_pc' = "h_logout"
                 /\ ka_last' = "idle_done"
                 /\ UNCHANGED <<ka_wait_open, ka_backoff, ka_k>>
    /\ UNCHANGED <<ka_state, ka_since, ka_noop_failed, ka_trail>>
    /\ UNCHANGED <<engineVars, envVars, ghostVars, msgVars, filterVars, tokenVars,
                   listenerVars, loadVars, moveVars, saveVars, markerVars>>

\* lines 343-347: logout(), whose exceptions are ignored; the session is over
KaLogout ==
    /\ ka_pc = "h_logout"
    /\ ka_state' = "closed"
    /\ ka_wait_open' = FALSE
    /\ ka_last' = "logout"
    /\ ka_trail' = IF ka_trail = <<>> THEN <<>> ELSE Append(ka_trail, "logout")
    /\ ka_pc' = "h_sleep"
    /\ ka_k' = Min(ka_k + 1, KCap)
    /\ UNCHANGED <<ka_since, ka_backoff, ka_noop_failed>>
    /\ UNCHANGED <<engineVars, envVars, ghostVars, msgVars, filterVars, tokenVars,
                   listenerVars, loadVars, moveVars, saveVars, markerVars>>

\* lines 349-350: time.sleep(backoff); backoff = min(backoff * 2, max_backoff)
KaSleep ==
    /\ ka_pc = "h_sleep"
    /\ ka_since' = Min(ka_since + ka_backoff, SinceCap)
    /\ ka_backoff' = Min(ka_backoff * 2, max_backoff)
    /\ ka_trail' = IF ka_trail = <<>> THEN <<>> ELSE Append(ka_trail, "sleep")
    /\ ka_pc' = "h_connect"
    /\ UNCHANGED <<ka_state, ka_wait_open, ka_noop_failed, ka_last, ka_k>>
    /\ UNCHANGED <<engineVars, envVars, ghostVars, msgVars, filterVars, tokenVars,
                   listenerVars, loadVars, moveVars, saveVars, markerVars>>

\* lines 352-357: connect(), whose failure is logged; every outcome but a
\* transport failure leaves a new client object in self.imap_client
KaConnect ==
    /\ ka_pc = "h_connect"
    /\ \E o \in ConnectOutcomes :
         /\ ka_state' = KaConnectResult(o, ka_state)
         /\ ka_noop_failed' = IF o = "transport" THEN ka_noop_failed ELSE FALSE
         /\ ka_wait_open' = IF o = "transport" THEN ka_wait_open ELSE FALSE
         /\ ka_k' = IF o = "ok" THEN 0 ELSE ka_k
    /\ ka_last' = "connect"
    /\ ka_trail' = IF ka_trail = <<>> THEN <<>> ELSE Append(ka_trail, "connect")
    /\ ka_pc' = "loop_top"
    /\ UNCHANGED <<ka_since, ka_backoff>>
    /\ UNCHANGED <<engineVars, envVars, ghostVars, msgVars, filterVars, tokenVars,
                   listenerVars, loadVars, moveVars, saveVars, markerVars>>

NextKeep ==
    KaLoopTop \/ KaIdle \/ KaIdleCheck \/ KaIdleDone \/ KaLogout \/ KaSleep \/ KaConnect

SpecKeep == InitKeep /\ [][NextKeep]_vars

(* ============================== claims ================================= *)

InTrail(e) == \E i \in DOMAIN trail : trail[i] = e

HandlerPcs == {"h_logout", "h_sleep", "h_connect"}

\* C1: in a drain pass, no collaborator (fetch, sender filter, Classifier,
\* Notifier) is invoked for an id that was in the ledger when the pass
\* filtered the unseen ids.
C1_LedgerIdsNotInvoked == filterLedger \cap passInvoked = {}

\* a pass that found an unseen id in the ledger and is classifying another id
C1_Witness ==
    /\ pc = "ps_classify"
    /\ \E u \in filterLedger : mailbox[u] = "unseen" /\ u # uid

\* C2: across drain passes, prunes, connection failures, reconnects, process
\* kills and restarts, no id is handed to the classification pipeline more
\* than once.
C2_HandedAtMostOnce == \A u \in UIDs : handed[u] <= 1

\* C3: an id process_single_email has worked on is in the ledger once the call
\* has returned, whatever path it took, and stays there while the message is
\* unseen; so no id is processed twice in one run.
C3_MarkedOnEveryPath ==
    /\ ~reentered
    /\ \A u \in entered : (u # uid /\ mailbox[u] = "unseen") => u \in processed_uids

\* an id that never reached the sender filter (invalid content or an exception)
\* is in the ledger and was filtered out by a later pass
C3_Witness ==
    \E u \in entered :
        /\ handed[u] = 0
        /\ mailbox[u] = "unseen"
        /\ u \in filterLedger
        /\ caller = "loop"
        /\ pc = "pu_loop"

\* C4: a long-poll wait is open only on a session on which a complete drain
\* pass has run since the connection was established.
C4_DrainBeforeFirstWait == (pc = "idle_wait") => drained

\* C5: no long-poll wait is issued while the last wait ended by timeout and no
\* drain pass has started since.
C5_DrainAfterTimeout == ~(pc = "idle_wait" /\ lastWait = "timeout")

\* C6: no long-poll wait is issued while the last wait returned EXISTS and no
\* drain pass has started since.
C6_DrainAfterExists == ~(lastWait = "exists" /\ pc = "idle_wait")

\* C7: every message that is unseen while the engine runs is eventually
\* worked on by process_single_email, unless it stops being unseen or the
\* engine exits (connection failures eventually stop: SpecLive).
C7_UnseenEventuallyHanded ==
    \A u \in UIDs :
        (mailbox[u] = "unseen" /\ pc # "exited")
            ~> (u \in entered \/ mailbox[u] # "unseen" \/ pc = "exited")

\* C8: after an exception in the main loop the handler performs, in this
\* order, the logout, a sleep of the backoff current at the exception, and a
\* connection attempt; the engine is back in the loop only after all three.
C8_HandlerOrder ==
    /\ (pc = "h_logout") => trail = <<"exc">>
    /\ (pc = "h_sleep") => trail = <<"exc", "logout">>
    /\ (pc = "h_connect") => (trail = <<"exc", "logout", "sleep">> /\ lastDelay = excBackoff)
    /\ (trail # <<>> /\ pc \notin HandlerPcs) =>
           (trail = <<"exc", "logout", "sleep", "connect">> /\ lastDelay = excBackoff)

\* the engine is back at the top of the loop on a new session
C8_Witness ==
    /\ pc = "loop_top"
    /\ sess = "selected"
    /\ trail = <<"exc", "logout", "sleep", "connect">>

\* C9: the backoff of the main loop stays within 5..300 and is 5 whenever no
\* failure happened since the session last went to the watch (the start, a
\* successful reconnect, the end of a wait); the k-th consecutive failure
\* since then sleeps min(5 * 2^(k-1), 300), so the first one sleeps 5.
C9_BackoffSchedule ==
    /\ ka_backoff >= initial_backoff
    /\ ka_backoff <= max_backoff
    /\ (ka_k = 0) => ka_backoff = initial_backoff
    /\ (ka_pc = "h_sleep") =>
         ka_backoff = IF ka_k < KCap
                      THEN Min(initial_backoff * Pow2(ka_k - 1), max_backoff)
                      ELSE max_backoff

\* C10: after a wait that ended by timeout the engine goes back to the wait on
\* the same session with no logout, sleep or connect, unless an exception is
\* raised on the way; an exception is followed by exactly one connection
\* attempt, made after the sleep of the backoff current at the exception.
C10_TimeoutAndReset ==
    /\ (lastWait = "timeout" /\ ~InTrail("exc")) =>
           /\ trail = <<>>
           /\ sess = "selected"
           /\ pc \in {"idle_done", "loop_top", "idle_start", "idle_wait"}
    /\ Cardinality({i \in DOMAIN trail : trail[i] = "connect"}) <= 1
    /\ \A i \in DOMAIN trail : trail[i] = "connect" =>
           /\ \E j \in 1..(i - 1) : trail[j] = "sleep"
           /\ lastDelay = excBackoff
    /\ (InTrail("exc") /\ pc \notin HandlerPcs) => InTrail("connect")

\* the wait has been re-entered after a timeout
C10_Witness == pc = "idle_wait" /\ lastWait = "timeout" /\ trail = <<>>

(* ---- claims about one message: process_single_email ---- *)

\* collaborator c has been invoked for the message of the running (last) call
Invoked(c) == \E i \in DOMAIN call.seq : call.seq[i] = c

\* the number of times c has been invoked for that message
TimesInvoked(c) == Cardinality({i \in DOMAIN call.seq : call.seq[i] = c})

\* process_single_email has returned and the for loop has not moved on yet
Returned == pc = "pu_loop" /\ call.uid # 0

\* C11: when the sender filter returns a label for a message, the Classifier
\* is not invoked for it, the Notifier is invoked with that label as the
\* result, and the id is in the ledger when the call has returned; the
\* Classifier is invoked only after the filter returned no verdict.
C11_FilterVerdictIsFinal ==
    /\ Invoked("classify") => (Invoked("filter") /\ call.verdict = "none")
    /\ (call.verdict \in Labels) =>
          /\ ~Invoked("classify")
          /\ Invoked("notify") => call.arg = call.verdict
          /\ Returned => /\ Invoked("notify")
                         /\ call.uid \in processed_uids

\* a message labelled by the sender filter has been notified, marked and moved
C11_Witness ==
    /\ Returned
    /\ call.verdict = "phishing"
    /\ call.arg = "phishing"
    /\ call.seq = <<"fetch", "parse", "filter", "notify", "mark", "move">>
    /\ call.uid \in processed_uids

\* C14: for a message whose fetched content is valid, once the call has
\* returned the Notifier has been invoked exactly once, whether the sender
\* filter gave the verdict or the Classifier was asked and succeeded or failed.
C14_NotifiedInAllCases ==
    (/\ Returned
     /\ call.content = "valid"
     /\ (call.verdict \in Labels \/ Invoked("classify")))
    => TimesInvoked("notify") = 1

\* the positions inside process_single_email
PsPcs == {"ps_fetch", "ps_filter", "ps_classify", "ps_notify", "ps_mark", "ps_move"}

\* a step taken while a drain pass is in its for loop
PassStep ==
    (pc \in PsPcs \cup {"pu_loop"}) =>
        \* control stays in the call, goes back to the for loop, or the pass ends
        /\ pc' \in PsPcs \cup {"pu_loop", "loop_top"}
        /\ (pc \in PsPcs) => (pc' # "loop_top" /\ queue' = queue)
        \* the pass ends only when the list is exhausted
        /\ (pc' = "loop_top") => queue = <<>>
        \* the for loop takes the ids one by one, in order
        /\ (queue' # queue) =>
              /\ queue' = Tail(queue)
              /\ \/ pc' = "ps_fetch" /\ uid' = Head(queue)
                 \/ pc' = "pu_loop" /\ Head(queue) \in processed_uids

\* C15: no exception raised while one message is processed leaves
\* process_single_email: whatever happens in the call, control returns to the
\* for loop of the drain pass, which goes on with the remaining ids of its
\* list and ends only when the list is exhausted.
C15_ExceptionsStayInTheCall == [][PassStep]_vars

\* the previous call of this pass ended in the except handler and the next id
\* of the list is being processed
C15_Witness ==
    /\ call.prevRaised
    /\ pc = "ps_filter"
    /\ call.uid = 2
    /\ 1 \in processed_uids

\* C16: when the fetched content is not a byte string, nothing but the ledger
\* is called for the message: no Parser, sender filter, Classifier, Notifier
\* or move; the id is in the ledger when the call has returned, and in this
\* run no call works on an id a second time, so no later pass invokes them
\* for it either.
C16_InvalidContentMarkedAndSkipped ==
    /\ (call.content = "invalid") =>
          /\ call.seq \in {<<"fetch">>, <<"fetch", "mark">>}
          /\ handed[call.uid] = 0
          /\ ~call.raised
          /\ Returned => (call.seq = <<"fetch", "mark">> /\ call.uid \in processed_uids)
    /\ ~reentered

\* in a pass after the startup drain a message with invalid content has been
\* marked, and the call has returned
C16_Witness ==
    /\ Returned
    /\ caller = "loop"
    /\ call.content = "invalid"
    /\ call.seq = <<"fetch", "mark">>
    /\ call.uid \in processed_uids
    /\ mailbox[call.uid] = "unseen"

(* ---- claims about the Sender Reputation Filter ---- *)

\* the address and the domain the filter derives from the sender field
SenderAddr == ExtractEmailAddress(sender_field)
SenderDomain == ExtractDomain(SenderAddr)

\* the sender matches an entry of kind t somewhere in the list
MatchesKind(list, t) ==
    \E i \in DOMAIN list : EntryMatch(list[i], SenderAddr, SenderDomain) = t

\* C12: when the sender matches an entry of the same kind in both lists (an
\* exact address in both, or a domain in both), the call returns the
\* dangerous label and logs exactly one warning.
C12_SameKindDangerousWins ==
    (/\ sfReturn.ran
     /\ sender_field # <<>>
     /\ \E t \in {"email", "domain"} :
           MatchesKind(DANGEROUS_SENDERS, t) /\ MatchesKind(SAFE_SENDERS, t))
    => (sfReturn.label = "phishing" /\ sfReturn.warnings = 1)

\* C13: when the sender matches an exact-address entry in one list and a
\* domain entry in the other, the call returns the verdict of the list that
\* holds the exact-address entry.  (When both lists hold an exact-address
\* entry for the sender there is no such list, and nothing is required.)
C13_ExactAddressWins ==
    /\ (/\ sfReturn.ran
        /\ sender_field # <<>>
        /\ MatchesKind(DANGEROUS_SENDERS, "email")
        /\ ~MatchesKind(SAFE_SENDERS, "email")
        /\ MatchesKind(SAFE_SENDERS, "domain")) => sfReturn.label = "phishing"
    /\ (/\ sfReturn.ran
        /\ sender_field # <<>>
        /\ MatchesKind(SAFE_SENDERS, "email")
        /\ ~MatchesKind(DANGEROUS_SENDERS, "email")
        /\ MatchesKind(DANGEROUS_SENDERS, "domain")) => sfReturn.label = "legitimate"

(* ---- claims about the Token Manager ---- *)

\* a get_valid_access_token call has been made
Called == tmCall.n > 0

\* when the call was made the file held tokens whose remaining lifetime was
\* 60 seconds or less, or whose expiry was not recorded
WithinMargin ==
    /\ tmCall.before.kind = "valid"
    /\ \/ ~tmCall.before.has_expiry
       \/ tmCall.before.expires_at - tmCall.at <= safety_margin

\* C17: a call made when the stored token has 60 seconds or less to live (or
\* no recorded expiry) never returns the stored token: what it returns is the
\* token issued in answer to a refresh request sent during that call, and
\* when no request was sent or the refresh failed it returns nothing.
C17_NoStaleToken ==
    (Called /\ WithinMargin) =>
        /\ tmCall.has_value =>
              /\ tmCall.posts = 1
              /\ tmCall.response = "ok"
              /\ tmCall.value = tmCall.n
              /\ tmCall.value # tmCall.before.access_token
        /\ (tmCall.posts = 0 \/ tmCall.response # "ok") => ~tmCall.has_value

\* a token with exactly 60 seconds left was refreshed, and the new one returned
C17_Witness ==
    /\ Called
    /\ tmCall.before.kind = "valid"
    /\ tmCall.before.has_expiry
    /\ tmCall.before.expires_at - tmCall.at = safety_margin
    /\ tmCall.posts = 1
    /\ tmCall.has_value
    /\ tmCall.value = tmCall.n

\* there was no usable credential: the file was missing or could not be read,
\* the token was within the margin with no refresh token, or the refresh
\* request was rejected
NoUsableCredential ==
    \/ tmCall.before.kind \in {"missing", "denied", "truncated", "binary"}
    \/ WithinMargin /\ ~tmCall.before.has_refresh
    \/ tmCall.response = "rejected"

\* C18: when there is no usable credential the call returns None and does not
\* raise; a rejected refresh was requested exactly once in that call.
C18_NoneWithoutRaising ==
    (Called /\ NoUsableCredential) =>
        /\ tmCall.outcome = "return"
        /\ ~tmCall.has_value
        /\ tmCall.posts <= 1
        /\ (tmCall.response = "rejected") => tmCall.posts = 1

\* C19: when the stored token is within the margin, a refresh token is present
\* and the refresh succeeds, the call returns the new access token, and the
\* token file then holds the new access token with an expiry later than the
\* old one.
C19_RefreshPersisted ==
    (/\ Called
     /\ WithinMargin
     /\ tmCall.before.has_refresh
     /\ tmCall.response = "ok"
     /\ tmCall.saved = "ok")
    => /\ tmCall.outcome = "return"
       /\ tmCall.has_value
       /\ tmCall.value = tmCall.n
       /\ token_file.kind = "valid"
       /\ token_file.access_token = tmCall.n
       /\ token_file.has_expiry
       /\ tmCall.before.has_expiry => token_file.expires_at > tmCall.before.expires_at

\* C20: a network error during the refresh request is raised as OAuthError,
\* and when it happens in the first call of a login the Session Manager goes
\* on to the interactive authorization flow.
C20_NetworkErrorIsOAuthError ==
    (Called /\ tmCall.response = "network_error") =>
        /\ tmCall.exc = "OAuthError"
        /\ (tmCall.site = "first") => tmCall.next = "authenticate_interactive"

(* ---------------------- callback listener claims ----------------------- *)

\* control is back with the caller of start_local_server
LsBackWithCaller == ls_pc \in {"returned", "raised"}

\* the listener was started: the thread that serves the callbacks runs
\* (server_thread.start() at line 273 returned)
ListenerStarted == server_thread # "none"

\* C21: once the callback listener has been started, it is shut down and its
\* socket is closed before start_local_server returns control to the caller,
\* whatever the outcome: authorization code received, error received, or the
\* 5-minute timeout.
C21_ListenerTornDown ==
    (LsBackWithCaller /\ ListenerStarted) =>
        /\ server_thread = "stopped"
        /\ server = "closed"
        /\ ls_outcome \in {"code", "error", "timeout"}
        /\ (ls_outcome = "timeout") => elapsed > timeout

\* the call ended by the timeout, with the listener torn down
C21_Witness ==
    /\ ls_pc = "raised"
    /\ ls_outcome = "timeout"
    /\ elapsed > timeout
    /\ server_thread = "stopped"
    /\ server = "closed"

(* --------------------------- ledger claims ----------------------------- *)

\* C22: _mark_uid_processed is idempotent and durable before it returns: once
\* the call for an id has returned the in-memory ledger holds the id, and the
\* persisted file holds it too, so that a restart right afterwards loads a
\* ledger that contains it.
C22_MarkDurableBeforeReturn ==
    Invoked("mark") =>
        /\ call.uid \in processed_uids
        /\ call.uid \in LoadProcessedUids(file)

\* _cleanup_processed_uids has run: one step from "pu_cleanup" to "pu_search"
PruneStep == pc = "pu_cleanup" /\ pc' = "pu_search"

\* C23: a prune that obtained the unseen set U turns the ledger L into exactly
\* L intersected with U, in memory and on disk; a prune that did not obtain U
\* (or had nothing to do) leaves both as they were.
C23_PruneIsIntersection ==
    [][PruneStep =>
         \/ /\ processed_uids' = processed_uids
            /\ file' = file
         \/ /\ processed_uids' = processed_uids \cap Unseen
            /\ LoadProcessedUids(file') = processed_uids \cap Unseen]_vars

\* the document is a ledger as _save_processed_uids writes it: an object
\* whose "processed_uids" member is a list of integers
WellFormedLedger(d) ==
    /\ d.kind = "json"
    /\ d.top = "object"
    /\ d.value = "list"
    /\ \A i \in DOMAIN d.items : d.items[i].t = "int"

\* C24: loading the ledger never terminates the process: for a file that is
\* missing, unreadable, truncated, not JSON, or JSON of an unexpected shape
\* (top level not an object, processed_uids not a list or not of integers)
\* the load returns the empty set.
C24_LoadNeverFatal ==
    ldReturn.ran =>
        /\ ldReturn.outcome = "return"
        /\ ~WellFormedLedger(processed_uids_file) => ldReturn.uids = {}

\* the process is killed in this step
KillStep == pc # "killed" /\ pc' = "killed"

\* C25: at every instant, also when the process is killed in the middle of a
\* write, the ledger file holds either the complete previous content or the
\* complete new content, never a truncated or partial one.
C25_WriteIsAtomic ==
    [][KillStep => (file' = file \/ file' = ValidFile(PendingLedger))]_vars

(* ------------------------- connection claims --------------------------- *)

\* the last connection attempt ended with the credentials refused
CredentialsRefused == sess = "open"

\* the last connection attempt failed on the network, before or during
\* authentication, at startup ("none": no client object was ever made)
NetworkFailedAtStartup == pc = "exited" /\ sess \in {"none", "broken"}

\* the last connection attempt authenticated and then failed to select the folder
FolderNotSelected == sess = "auth"

\* C26: an authentication failure caused by a credentials problem makes the
\* process exit, at the initial connection attempt and at each reconnect
\* attempt; the loop does not go on.
C26_CredentialsFailureIsFatal == CredentialsRefused => pc = "exited"

\* C27: a transient network failure while connecting or authenticating does
\* not terminate the process, at the initial connection as at a reconnect.
C27_NetworkFailureNotFatal == ~NetworkFailedAtStartup

\* C28: a folder-selection failure is fatal at every connection attempt: the
\* process exits, and no long-poll wait or drain is issued on a session whose
\* folder was not selected.
C28_SelectFailureIsFatal ==
    /\ FolderNotSelected => pc = "exited"
    /\ pc \in {"idle_wait", "idle_done", "pu_loop"} => sess # "auth"

(* -------------------------- interrupt claims --------------------------- *)

\* monitor_mailbox_idle is over after an interrupt: it returned ("ended") or
\* the KeyboardInterrupt left it ("propagated")
ShutDown == pc \in {"ended", "propagated"}

\* C29: an interrupt received at any point after the transport was opened
\* (startup drain, long-poll wait, drain pass, backoff delay, reconnect) makes
\* the engine leave the loop and log out of the current session, best
\* effort, before the process ends.
C29_InterruptLogsOut == (ShutDown /\ sess # "none") => sess = "closed"

\* C30: at shutdown after an interrupt no message has been handed to the
\* Classifier or the Notifier without being recorded in the ledger.
C30_NoHalfProcessedMessage ==
    (ShutDown /\ (Invoked("classify") \/ Invoked("notify"))) =>
        call.uid \in processed_uids

(* ------------------------ fetch and ledger claims ---------------------- *)

\* C37: process_single_email adds an id to the ledger only after the raw
\* content of that message was fetched from the server (and then found
\* invalid or run through the pipeline); a fetch that fails leaves the id out
\* of the ledger, so that a later drain picks it up.
C37_MarkedOnlyAfterFetch ==
    /\ Invoked("mark") => call.content # "none"
    /\ (Returned /\ call.content = "none") => call.uid \notin processed_uids

(* ----------------------- order of the list entries --------------------- *)

\* the set of entries of a list
EntrySet(list) == {list[i] : i \in DOMAIN list}

\* C35: for a fixed sender field the label check_sender_classification returns
\* depends only on the set of entries of the dangerous list and the set of
\* entries of the safe list: any two lists with the same entries, in whatever
\* order, give the same label.
C35_VerdictIgnoresListOrder ==
    sfReturn.ran =>
        \A d2 \in ListsUpTo(MaxList), s2 \in ListsUpTo(MaxList) :
            (/\ EntrySet(d2) = EntrySet(DANGEROUS_SENDERS)
             /\ EntrySet(s2) = EntrySet(SAFE_SENDERS))
            => CheckSenderClassification(sender_field, config_attrs, d2, s2).label
                  = sfReturn.label

(* -------------------- callbacks racing with the wait ------------------- *)

\* the waiting thread tests its loop condition and leaves the wait loop
WaitEnds == ls_pc = "wait" /\ ls_pc' = "shutdown"

\* C38: when a callback carrying an authorization code has been handled before
\* the wait ends, start_local_server returns a code and does not raise,
\* whatever other callbacks (an error, a second code) the listener thread
\* handled before the waiting thread polled.
C38_CodeCallbackWins ==
    [][(WaitEnds /\ authorization_code) => ls_outcome' = "code"]_vars

(* ------------------------ reuse of a dead session ---------------------- *)

\* the engine sends a command on self.imap_client: the long-poll wait is
\* issued, a keepalive is sent and fails, or a step of a drain pass runs
CommandIssued ==
    \/ pc = "idle_start" /\ pc' # pc
    \/ pc = "loop_top" /\ pc' = "h_logout"
    \/ pc \in DrainPcs /\ pc' # pc

\* C34: every keepalive, long-poll wait and drain command is issued on a
\* session that completed transport setup, authentication and folder selection
\* and has not been logged out since: a session that was torn down, or whose
\* establishment failed part-way, is never used again.
C34_NoReuseOfDeadSession ==
    [][CommandIssued => sess = "selected"]_vars

(* ------------------- the refresh token across refreshes ---------------- *)

\* the call sent a refresh request
RefreshAttempted == Called /\ tmCall.posts = 1

\* the refresh request was answered with new tokens and the call returned
\* the new access token
RefreshSucceeded == RefreshAttempted /\ tmCall.outcome = "return" /\ tmCall.has_value

\* C39: after a successful refresh the stored credential still has a refresh
\* token, the one the answer carried or else the one stored before; a refresh
\* that fails (the request fails, is rejected, or the new tokens cannot be
\* saved) leaves the stored credential as it was.
C39_RefreshTokenKept ==
    /\ RefreshSucceeded =>
          /\ token_file.kind = "valid"
          /\ token_file.has_refresh
          /\ token_file.refresh_token =
                IF tmCall.carried THEN tmCall.n ELSE tmCall.before.refresh_token
    /\ (RefreshAttempted /\ ~RefreshSucceeded) => token_file = tmCall.before

(* --------------------------- the move action --------------------------- *)

\* imap_client.move was called for the message
MoveInvoked == \E i \in DOMAIN me_calls : me_calls[i] = "move"

\* the id was marked before imap_client.move was called
MarkedBeforeMove ==
    \E i, j \in DOMAIN me_calls :
        i < j /\ me_calls[i] = "mark" /\ me_calls[j] = "move"

\* C32: the move is invoked only if a destination folder is configured and
\* the label, lower-cased, is "phishing", and only after the id was marked;
\* a move that fails does not reach the exception handler of
\* process_single_email, the call returns, and the id stays in the ledger.
C32_MoveOnlyPhishingAfterMark ==
    /\ MoveInvoked =>
          /\ Strip(MOVE_TO_FOLDER) # <<>>
          /\ classification.t = "str"
          /\ Lower(classification.s) = PhishingLabel
          /\ MarkedBeforeMove
          /\ TheUid \in me_uids
    /\ me_moved = "failed" =>
          /\ me_pc = "returned"
          /\ ~me_handler
          /\ TheUid \in me_uids

\* the Classifier answered "PHISHING", a folder is configured, the id was
\* marked and the move was then called and failed
C32_Witness ==
    /\ me_pc = "returned"
    /\ classification = [t |-> "str", s |-> <<"P", "H", "I", "S", "H", "I", "N", "G">>]
    /\ MOVE_TO_FOLDER = <<"J">>
    /\ me_calls = <<"notify", "mark", "move">>
    /\ me_moved = "failed"
    /\ TheUid \in me_uids

(* ---------------------- permissions of the token file ------------------ *)

\* C33: whenever the token file exists and holds token content (complete or
\* cut short), its mode gives access to the owner only; this includes the
\* time between the write and the return of save_tokens when the file is
\* first created.
C33_TokenFileOwnerOnly ==
    (tokfile.exists /\ tokfile.content \in {"tokens", "partial"})
    => OwnerOnly(tokfile.mode)

(* ---------------------- the server-side marker (main.py) --------------- *)

\* C36: in main.py no message is submitted to the Classifier in more than one
\* drain pass, and when process_single_email has returned for an id the
\* message bears the processed marker, whatever failed on the way.
C36_MarkerAfterEveryCall ==
    /\ \A u \in UIDs : mk_passes[u] <= 1
    /\ mk_ret # 0 => mk_ret \in mk_flags

(* ----------------------------- the keepalive --------------------------- *)

\* what follows a keepalive failure, in order
AfterNoopFailure == <<"noop_fail", "logout", "sleep", "connect">>

\* C31: a keepalive that fails is followed by the logout, the backoff sleep
\* and the reconnect, in this order and with nothing in between; the
\* long-poll wait is never issued on a session on which a keepalive failed;
\* and a keepalive is only sent when no wait is open on the session.
C31_KeepaliveFailureReconnects ==
    /\ ka_trail # <<>> =>
          /\ Len(ka_trail) <= Len(AfterNoopFailure)
          /\ ka_trail = SubSeq(AfterNoopFailure, 1, Len(ka_trail))
          /\ ka_pc = CASE Len(ka_trail) = 1 -> "h_logout"
                       [] Len(ka_trail) = 2 -> "h_sleep"
                       [] Len(ka_trail) = 3 -> "h_connect"
                       [] OTHER -> "loop_top"
    /\ ka_last \in {"idle_ok", "idle_fail"} => ~ka_noop_failed
    /\ ka_last \in {"noop_ok", "noop_fail"} => ~ka_wait_open

\* a keepalive failed, the handler logged out, slept and could not reach the
\* server, and the loop is at its top again with the old client
C31_Witness ==
    /\ ka_pc = "loop_top"
    /\ ka_trail = AfterNoopFailure
    /\ ka_noop_failed
    /\ ka_state = "closed"
    /\ ka_since > noop_interval

====
